---- MODULE Spec2Model ----
(***************************************************************************)
(* Task lifecycle of win-nlp-control: the submit-command handler            *)
(* (execute_command), the per-submission supervisory wrapper, the          *)
(* stop handler (stop_task), the task registry (AppState.tasks), the       *)
(* shared configuration mutex and the single worker of TaskScheduler.      *)
(*                                                                         *)
(* The repository holds two generations of the same code:                  *)
(*   - src/main.rs            the HTTP handlers the binary wires up        *)
(*   - src/webapi/handlers.rs the same handlers after the refactoring      *)
(*   - src/task_scheduler.rs  the worker both handler files import         *)
(*   - src/task/scheduler.rs  the refactored worker                        *)
(* A run of the model is a run of one handler file with one worker: Init   *)
(* draws which (api, sched).                                               *)
(***************************************************************************)
EXTENDS Integers, Sequences, FiniteSets, TLC

\* ------------------------------------------------------------------ bounds
MaxTasks == 2

Tasks == 1..MaxTasks

\* task ids (Uuid::new_v4 per accepted request), numbered in the order the
\* requests are issued; NoTask stands for "no id"
NoTask == 0

\* ------------------------------------------------------------- data model
\* Result of the action executor: Ok(()) or Err(reason).
ErrorKinds == {"e1", "e2"}
OkResult == [ok |-> TRUE, err |-> ""]
ErrResult(e) == [ok |-> FALSE, err |-> e]
Results == {OkResult} \cup {ErrResult(e) : e \in ErrorKinds}
NoResult == [ok |-> FALSE, err |-> ""]

\* TaskStatus (task/model.rs); main.rs keeps the status as a string.
TaskStatus(k, e) == [kind |-> k, err |-> e]
NoStatus == TaskStatus("none", "")

\* status written at registration
StatusQueued(a) == IF a = "webapi" THEN TaskStatus("Queued", "") ELSE TaskStatus("queued", "")

\* status the supervisory wrapper writes after the cancel signal
StatusCancelled(a) == IF a = "webapi" THEN TaskStatus("Cancelled", "") ELSE TaskStatus("cancelled", "")

\* mutant of ResultStatus: the error is swallowed and the task shows Completed
ResultStatusSwallowsError(a, res) ==
    IF a = "webapi" THEN TaskStatus("Completed", "") ELSE TaskStatus("Success", "")

\* status the task closure writes from the executor's result:
\* webapi: Ok(_) => Completed, Err(e) => Failed(e);
\* main.rs: format!("{:?}", action_result), i.e. Success(..) or Failure(e).
ResultStatus(a, res) ==
    IF a = "webapi"
    THEN IF res.ok THEN TaskStatus("Completed", "") ELSE TaskStatus("Failed", res.err)
    ELSE IF res.ok THEN TaskStatus("Success", "") ELSE TaskStatus("Failure", res.err)

\* registry entry: (TaskInfo, Option<oneshot::Sender<()>>, Option<JoinHandle<()>>)
TaskRecord(st, tx, h) == [present |-> TRUE, status |-> st, cancel_tx |-> tx, handle |-> h]
NoRecord == [present |-> FALSE, status |-> NoStatus, cancel_tx |-> FALSE, handle |-> FALSE]

\* ================================================================ resolver
\* Intent resolution (intent_mapper.rs). A String is a TLA+ string; the two
\* conversions that look inside a string, to_lowercase and parse::<u32>, work
\* on its characters. Chars spells the strings of the model that hold an
\* upper-case letter or stand where a number is expected; every other string
\* of the model is lower-case text without digits and is one opaque symbol.
Chars(s) ==
    CASE s = "Open_Chrome" -> <<"O", "p", "e", "n", "_", "C", "h", "r", "o", "m", "e">>
      [] s = "open_chrome" -> <<"o", "p", "e", "n", "_", "c", "h", "r", "o", "m", "e">>
      [] s = "multi" -> <<"m", "u", "l", "t", "i">>
      [] s = "OPEN_CHROME" -> <<"O", "P", "E", "N", "_", "C", "H", "R", "O", "M", "E">>
      [] s = "Multi" -> <<"M", "u", "l", "t", "i">>
      [] s = "MULTI" -> <<"M", "U", "L", "T", "I">>
      [] s = "1024" -> <<"1", "0", "2", "4">>
      [] s = "0" -> <<"0">>
      [] s = "007" -> <<"0", "0", "7">>
      [] s = "+7" -> <<"+", "7">>
      [] s = "-5" -> <<"-", "5">>
      [] s = "12a" -> <<"1", "2", "a">>
      [] s = "4294967295" -> <<"4", "2", "9", "4", "9", "6", "7", "2", "9", "5">>
      [] s = "4294967296" -> <<"4", "2", "9", "4", "9", "6", "7", "2", "9", "6">>
      [] s = "99999999999" -> <<"9", "9", "9", "9", "9", "9", "9", "9", "9", "9", "9">>
      [] s = " 8" -> <<" ", "8">>
      [] s = "" -> <<>>
      [] OTHER -> <<s>>

\* char::to_lowercase on the letters that occur in upper case in the model
LowerChar(c) ==
    CASE c = "O" -> "o" [] c = "P" -> "p" [] c = "E" -> "e" [] c = "N" -> "n"
      [] c = "C" -> "c" [] c = "H" -> "h" [] c = "R" -> "r" [] c = "M" -> "m"
      [] c = "U" -> "u" [] c = "L" -> "l" [] c = "T" -> "t" [] c = "I" -> "i"
      [] OTHER -> c

\* str::to_lowercase, as the sequence of the lowered characters
to_lowercase(s) == [i \in DOMAIN Chars(s) |-> LowerChar(Chars(s)[i])]

\* u32 values are kept as two 16-bit halves, so that u32::MAX is representable
U16 == 65536
U32(n) == [hi |-> n \div U16, lo |-> n % U16]

DigitValue(c) ==
    CASE c = "0" -> 0 [] c = "1" -> 1 [] c = "2" -> 2 [] c = "3" -> 3 [] c = "4" -> 4
      [] c = "5" -> 5 [] c = "6" -> 6 [] c = "7" -> 7 [] c = "8" -> 8 [] c = "9" -> 9
      [] OTHER -> 0 - 1

\* Option<T>
None == [some |-> FALSE]
Some(v) == [some |-> TRUE, val |-> v]

\* the digit loop of u32::from_str: acc = acc.checked_mul(10)?.checked_add(d)?,
\* Err(InvalidDigit) on a character that is no digit, Err(PosOverflow) past
\* u32::MAX
RECURSIVE ParseDigits(_, _, _)
ParseDigits(cs, i, acc) ==
    IF i > Len(cs) THEN Some(acc)
    ELSE LET d == DigitValue(cs[i])
             lo == acc.lo * 10 + d
             hi == acc.hi * 10 + (lo \div U16)
         IN  IF d < 0 \/ hi >= U16 THEN None
             ELSE ParseDigits(cs, i + 1, [hi |-> hi, lo |-> lo % U16])

\* mutant of ParseU32: the longest prefix of digits is converted and the
\* rest of the string is ignored
RECURSIVE DigitPrefix(_, _)
DigitPrefix(cs, i) ==
    IF i > Len(cs) \/ DigitValue(cs[i]) < 0 THEN <<>>
    ELSE <<cs[i]>> \o DigitPrefix(cs, i + 1)

ParseU32Prefix(s) ==
    LET digits == DigitPrefix(Chars(s), 1)
    IN  IF Len(digits) = 0 THEN None ELSE ParseDigits(digits, 1, U32(0))

\* s.parse::<u32>().ok(): an optional leading '+', then at least one digit
ParseU32(s) ==
    LET cs == Chars(s)
        digits == IF Len(cs) > 1 /\ cs[1] = "+" THEN Tail(cs) ELSE cs
    IN  IF Len(digits) = 0 THEN None ELSE ParseDigits(digits, 1, U32(0))

\* HashMap<String, String> is a function on the keys it holds
EmptyMap == [k \in {} |-> ""]
HasKey(m, k) == k \in DOMAIN m

\* mutant of or_insert: the default replaces the value the caller gave
insert_overwrite(m, k, v) ==
    [x \in DOMAIN m \cup {k} |-> IF x = k THEN v ELSE m[x]]

\* m.entry(k).or_insert(v)
or_insert(m, k, v) ==
    IF HasKey(m, k) THEN m ELSE [x \in DOMAIN m \cup {k} |-> IF x = k THEN v ELSE m[x]]

\* for (k, v) in defaults { m.entry(k.clone()).or_insert(v.clone()); }
RECURSIVE InsertDefaults(_, _, _)
InsertDefaults(m, defaults, todo) ==
    IF todo = {} THEN m
    ELSE LET k == CHOOSE x \in todo : TRUE
         IN  InsertDefaults(or_insert(m, k, defaults[k]), defaults, todo \ {k})

\* parameters.get(k).cloned()
Get(m, k) == IF HasKey(m, k) THEN Some(m[k]) ELSE None
\* parameters.get(k).cloned().unwrap_or_default()
GetOrDefault(m, k) == IF HasKey(m, k) THEN m[k] ELSE ""
\* parameters.get(k).and_then(|s| s.parse::<u32>().ok())
GetU32(m, k) == IF HasKey(m, k) THEN ParseU32(m[k]) ELSE None
\* Option::unwrap_or
unwrap_or(o, d) == IF o.some THEN o.val ELSE d

\* NLPResult { intent, parameters }
NLPResult(i, p) == [intent |-> i, parameters |-> p]

\* the defaults of window_resize (intent_mapper.rs 178-179)
DefaultWidth == 800
DefaultHeight == 600

\* the fixed fallback message of Action::Unknown (intent_mapper.rs 267, a
\* Russian sentence: "Command not recognized. Try to refine the request.")
FallbackHint == "command_not_recognized"

\* map_intent_impl: `match nlp_result.intent.as_str()`; the arms are tried in
\* source order, so the "delete_file" arm of line 254 comes after the
\* file-operation arm of line 237, which already takes "delete_file"
map_intent_impl(nlp) ==
    LET i == nlp.intent
        p == nlp.parameters
    IN
        CASE i = "button_click" ->
            [type |-> "ButtonClick", label |-> GetOrDefault(p, "label")]
          [] i = "button_double_click" ->
            [type |-> "ButtonDoubleClick", label |-> GetOrDefault(p, "label")]
          [] i = "edit_enter_text" ->
            [type |-> "EditEnterText", label |-> GetOrDefault(p, "label"), text |-> GetOrDefault(p, "text")]
          [] i = "edit_select_text" ->
            [type |-> "EditSelectText", label |-> GetOrDefault(p, "label"), start |-> GetU32(p, "start"), end |-> GetU32(p, "end")]
          [] i = "edit_copy_text" ->
            [type |-> "EditCopyText", label |-> GetOrDefault(p, "label")]
          [] i = "edit_cut_text" ->
            [type |-> "EditCutText", label |-> GetOrDefault(p, "label")]
          [] i = "edit_clear_field" ->
            [type |-> "EditClearField", label |-> GetOrDefault(p, "label")]
          [] i = "edit_delete_text" ->
            [type |-> "EditDeleteText", label |-> GetOrDefault(p, "label")]
          [] i = "edit_paste_text" ->
            [type |-> "EditPasteText", label |-> GetOrDefault(p, "label"), text |-> Get(p, "text")]
          [] i = "static_get_text" ->
            [type |-> "StaticGetText", label |-> GetOrDefault(p, "label")]
          [] i = "set_text" ->
            [type |-> "SetText", label |-> GetOrDefault(p, "label"), text |-> GetOrDefault(p, "text")]
          [] i = "set_focus" ->
            [type |-> "SetFocus", label |-> GetOrDefault(p, "label")]
          [] i = "checkbox_set_state" ->
            [type |-> "CheckboxSetState", label |-> GetOrDefault(p, "label"), state |-> unwrap_or(Get(p, "state"), "false") = "true"]
          [] i = "radio_select" ->
            [type |-> "RadioSelect", label |-> GetOrDefault(p, "label"), variant |-> Get(p, "variant")]
          [] i = "treeview_select" ->
            [type |-> "TreeViewSelect", label |-> GetOrDefault(p, "label"), node |-> Get(p, "node")]
          [] i = "treeview_expand" ->
            [type |-> "TreeViewExpand", label |-> GetOrDefault(p, "label"), node |-> Get(p, "node")]
          [] i = "listview_select_item" ->
            [type |-> "ListViewSelectItem", label |-> GetOrDefault(p, "label"), item |-> GetOrDefault(p, "item")]
          [] i = "tabcontrol_select_tab" ->
            [type |-> "TabControlSelectTab", label |-> GetOrDefault(p, "label"), tab |-> GetOrDefault(p, "tab")]
          [] i = "window_resize" ->
            [type |-> "WindowResize", width |-> unwrap_or(GetU32(p, "width"), U32(DefaultWidth)), height |-> unwrap_or(GetU32(p, "height"), U32(DefaultHeight))]
          [] i = "window_minimize" ->
            [type |-> "WindowMinimize", label |-> GetOrDefault(p, "label")]
          [] i = "window_maximize" ->
            [type |-> "WindowMaximize", label |-> GetOrDefault(p, "label")]
          [] i = "window_close" ->
            [type |-> "WindowClose", label |-> GetOrDefault(p, "label")]
          [] i = "window_move" ->
            [type |-> "WindowMove", label |-> GetOrDefault(p, "label"), x |-> unwrap_or(GetU32(p, "x"), U32(0)), y |-> unwrap_or(GetU32(p, "y"), U32(0))]
          [] i \in {"launch_object", "launch_application"} ->
            [type |-> "LaunchApplication", app |-> unwrap_or(IF HasKey(p, "object") THEN Get(p, "object") ELSE Get(p, "app"), "")]
          [] i \in {"focus_object", "focus_application"} ->
            [type |-> "FocusApplication", app |-> unwrap_or(IF HasKey(p, "object") THEN Get(p, "object") ELSE Get(p, "app"), "")]
          [] i = "group_windows" ->
            [type |-> "GroupWindows", group |-> GetOrDefault(p, "group"), windows |-> GetOrDefault(p, "windows")]
          [] i = "window_minimize_all" ->
            [type |-> "WindowMinimizeAll"]
          [] i = "window_maximize_all" ->
            [type |-> "WindowMaximizeAll"]
          [] i = "window_close_all" ->
            [type |-> "WindowCloseAll"]
          [] i = "open_file" ->
            [type |-> "OpenFileProperties", file |-> GetOrDefault(p, "file")]
          [] i = "list_select" ->
            [type |-> "ListSelect", label |-> GetOrDefault(p, "label"), item |-> GetOrDefault(p, "item")]
          [] i = "key_press" ->
            [type |-> "KeyPress", key |-> GetOrDefault(p, "key")]
          [] i = "scroll" ->
            [type |-> "Scroll", direction |-> unwrap_or(Get(p, "direction"), "up"), amount |-> GetU32(p, "amount")]
          [] i = "screenshot" ->
            [type |-> "Screenshot"]
          [] i = "spinner_adjust" ->
            [type |-> "SpinnerAdjust", label |-> GetOrDefault(p, "label"), operation |-> GetOrDefault(p, "operation"), value |-> unwrap_or(GetU32(p, "value"), U32(0))]
          [] i = "select_files" ->
            [type |-> "SelectFiles", criteria |-> GetOrDefault(p, "criteria")]
          [] i \in {"copy_file", "cut_file", "delete_file", "move_file", "rename_file"} ->
            [type |-> "FileOperation", operation |-> i]
          [] i = "paste_files" ->
            [type |-> "PasteFiles", destination |-> GetOrDefault(p, "destination")]
          [] i = "create_directory" ->
            [type |-> "CreateDirectory", name |-> GetOrDefault(p, "name")]
          [] i = "delete_directory" ->
            [type |-> "DeleteDirectory", name |-> GetOrDefault(p, "name")]
          [] i = "create_file" ->
            [type |-> "CreateFile", name |-> GetOrDefault(p, "name")]
          [] i = "multi_step" ->
            [type |-> "MultiStep", steps |-> <<>>]
          [] i = "delete_file" /\ i \notin {"copy_file", "cut_file", "delete_file", "move_file", "rename_file"} ->
            [type |-> "DeleteFile", name |-> GetOrDefault(p, "name")]
          [] OTHER ->
            [type |-> "Unknown", hint |-> unwrap_or(Get(p, "hint"), FallbackHint)]

\* AliasConfig { alias, intent, parameters, command_type, steps }
AliasConfig(a, i, p, ct, st) ==
    [alias |-> a, intent |-> i, parameters |-> p, command_type |-> ct, steps |-> st]

\* AppConfig { aliases, language }
AppConfig(al, lang) == [aliases |-> al, language |-> lang]

\* SharedConfig = Arc<Mutex<Option<AppConfig>>>: the value behind the mutex,
\* and whether a thread has panicked while holding the guard
SharedConfig(v, poisoned) == [value |-> v, poisoned |-> poisoned]

\* the caller's result with another intent and the defaults of a rule or of a
\* step inserted where the caller gave no value (lines 64-70 and 77-83)
WithDefaults(nlp, rule) ==
    NLPResult(rule.intent,
              IF rule.parameters.some
              THEN InsertDefaults(nlp.parameters, rule.parameters.val, DOMAIN rule.parameters.val)
              ELSE nlp.parameters)

\* mutant of StepBase: a step starts from the parent alias's merged result
StepBaseFromParent(nlp, new_result) == new_result

\* line 77: `let mut step_result = nlp_result.clone()`: a step starts from the
\* caller's result, not from new_result
StepBase(nlp, new_result) == nlp

\* mutant of ResolveTarget: the target intent is looked up in the alias table
\* once more before the direct mapping
ResolveTargetOneMoreAlias(new_result, aliases) ==
    LET hits == {k \in DOMAIN aliases :
                    to_lowercase(aliases[k].alias) = to_lowercase(new_result.intent)}
    IN  IF hits = {} THEN map_intent_impl(new_result)
        ELSE LET rule == aliases[CHOOSE k \in hits : \A h \in hits : k <= h]
             IN  map_intent_impl(NLPResult(rule.intent,
                    IF rule.parameters.some
                    THEN InsertDefaults(new_result.parameters, rule.parameters.val,
                                        DOMAIN rule.parameters.val)
                    ELSE new_result.parameters))

\* mutant of ResolveTarget: a target that names an alias is resolved through
\* the table again and again, so the call does not return
ResolveTargetNeverReturns(new_result, aliases) ==
    IF \E k \in DOMAIN aliases :
          to_lowercase(aliases[k].alias) = to_lowercase(new_result.intent)
    THEN [type |-> "none"]
    ELSE map_intent_impl(new_result)

\* lines 84 and 91: `map_intent_impl(&..)`: the direct mapping, which does not
\* see the alias table
ResolveTarget(new_result, aliases) == map_intent_impl(new_result)

\* lines 64-91: what a matching rule yields
ApplyAlias(nlp, rule, aliases) ==
    LET new_result == WithDefaults(nlp, rule)
    IN  IF /\ rule.command_type.some
           /\ to_lowercase(rule.command_type.val) = Chars("multi")
           /\ rule.steps.some
        THEN [type |-> "MultiStep",
              steps |-> [j \in 1..Len(rule.steps.val) |->
                           ResolveTarget(WithDefaults(StepBase(nlp, new_result), rule.steps.val[j]),
                                         aliases)]]
        ELSE ResolveTarget(new_result, aliases)

\* mutant of ScanAliases: the last matching rule of the table is applied
RECURSIVE ScanAliasesLastWins(_, _, _)
ScanAliasesLastWins(nlp, aliases, k) ==
    IF k > Len(aliases) THEN None
    ELSE LET later == ScanAliasesLastWins(nlp, aliases, k + 1)
         IN  IF later.some THEN later
             ELSE IF to_lowercase(aliases[k].alias) = to_lowercase(nlp.intent)
                  THEN Some(ApplyAlias(nlp, aliases[k], aliases))
                  ELSE None

\* for alias in config.aliases.iter() { if <names equal ignoring case> { return .. } }
RECURSIVE ScanAliases(_, _, _)
ScanAliases(nlp, aliases, k) ==
    IF k > Len(aliases) THEN None
    ELSE IF to_lowercase(aliases[k].alias) = to_lowercase(nlp.intent)
         THEN Some(ApplyAlias(nlp, aliases[k], aliases))
         ELSE ScanAliases(nlp, aliases, k + 1)

\* mutant of try_apply_alias: a poisoned mutex is read all the same
try_apply_alias_despite_poison(nlp, shared) ==
    IF ~shared.value.some THEN None
    ELSE ScanAliases(nlp, shared.value.val.aliases, 1)

\* try_apply_alias: `shared_config.lock().ok()?` gives up on a poisoned mutex,
\* `config_lock.as_ref()?` when no configuration is loaded
try_apply_alias(nlp, shared) ==
    IF shared.poisoned THEN None
    ELSE IF ~shared.value.some THEN None
    ELSE ScanAliases(nlp, shared.value.val.aliases, 1)

\* map_intent (the function; the handler's call of it is the step map_intent(r))
MapIntent(nlp, shared) ==
    LET alias_action == try_apply_alias(nlp, shared)
    IN  IF alias_action.some THEN alias_action.val ELSE map_intent_impl(nlp)

\* nothing resolved yet
NoAction == [type |-> "none"]

\* owners of the configuration mutex: 0 nobody, a task id = that request's
\* handler thread, WorkerThread = the scheduler's worker
WorkerThread == 0 - 1
ResolverThread == 0 - 2
Unlocked == 0

\* ---------------------------------------------------------------------------
\* The configuration file and AppConfig::load_from_file
\* ---------------------------------------------------------------------------
\* what load_from_file can observe of the file: whether the path resolves,
\* whether it lies under the current directory, the permission bits, whether
\* it can be read, and what it holds
FileState(exists, in_base, mode, readable, content) ==
    [exists |-> exists, in_base |-> in_base, mode |-> mode, readable |-> readable,
     content |-> content]

\* 0o644; 0o664 and 0o646 are writable by the group and by others
SecureMode == 420
GroupWritableMode == 436
OtherWritableMode == 422

\* mode & 0o022 != 0
GroupOrOtherWritable(mode) == (mode \div 16) % 2 = 1 \/ (mode \div 2) % 2 = 1

\* serde_json::from_str of the file's text
ParseConfig(content) ==
    CASE content = "A" ->
           Some(AppConfig(<<AliasConfig("open_chrome", "launch_application",
                                        Some([app |-> "chrome.exe"]), None, None)>>, "ru"))
      [] content = "B" -> Some(AppConfig(<<>>, "de"))
      [] content = "M1" ->
           Some(AppConfig(<<AliasConfig("morning", "multi_step", None, Some("multi"),
                  Some(<<AliasConfig("", "launch_application", Some([app |-> "a1.exe"]), None, None),
                         AliasConfig("", "focus_application", Some([app |-> "b1.exe"]), None, None)>>))>>,
                "ru"))
      [] content = "M2" ->
           Some(AppConfig(<<AliasConfig("open_chrome", "launch_application",
                                        Some([app |-> "chrome.exe"]), None, None),
                            AliasConfig("morning", "multi_step", None, Some("multi"),
                  Some(<<AliasConfig("", "launch_application", Some([app |-> "a2.exe"]), None, None),
                         AliasConfig("", "focus_application", Some([app |-> "b2.exe"]), None, None)>>))>>,
                "ru"))
      [] OTHER -> None

Ok(v) == [ok |-> TRUE, val |-> v]
Err(e) == [ok |-> FALSE, err |-> e]

\* mutant of load_from_file: the permission bits are not looked at
load_from_file_any_mode(f) ==
    IF ~f.exists THEN Err("canonicalize")
    ELSE IF ~f.in_base THEN Err("path")
    ELSE IF ~f.readable THEN Err("read")
    ELSE IF ~ParseConfig(f.content).some THEN Err("parse")
    ELSE Ok(ParseConfig(f.content).val)

\* AppConfig::load_from_file: canonicalize, base directory, permission bits,
\* read, parse; the first check that fails is the error returned
load_from_file(f) ==
    IF ~f.exists THEN Err("canonicalize")
    ELSE IF ~f.in_base THEN Err("path")
    ELSE IF GroupOrOtherWritable(f.mode) THEN Err("mode")
    ELSE IF ~f.readable THEN Err("read")
    ELSE IF ~ParseConfig(f.content).some THEN Err("parse")
    ELSE Ok(ParseConfig(f.content).val)

VARIABLES
    api,              \* "main" | "webapi": which execute_command serves requests
    sched,            \* "task_scheduler" | "task/scheduler": which worker loop runs
    antiflood,        \* AppConfig.antiflood
    lastCommandTime,  \* LAST_COMMAND_TIME is Some(_)
    cfgOwner,         \* holder of the SharedConfig mutex
    hpc,              \* position of each submit-command handler
    tasks,            \* AppState.tasks: id -> record or NoRecord
    cancelRx,         \* the oneshot cancel channel has a value
    abortReq,         \* JoinHandle::abort was called on the wrapper
    wr,               \* position of each supervisory wrapper
    queue,            \* mpsc channel of the scheduler
    wk,               \* position of the worker loop
    cur,              \* the task the worker received last
    executing,        \* tasks whose operation has started and not returned
    startLog,         \* history: order in which operations were started
    action_result,    \* what the executor returned to the last task closure that ran
    resp,             \* history: body of each submit-command response
    lastStop,         \* history: outcome of the last stop request
    opReturned,       \* history: tasks whose operation has returned
    sequential,       \* history: every request so far was issued after all earlier ones returned
    stopPhase,        \* history: where the task was when stop(id) succeeded
    sender,           \* some mpsc::Sender<Task> of the scheduler's channel is alive
    nlp_result,       \* resolver: the NLPResult handed to map_intent
    shared_config,    \* the value behind the SharedConfig mutex
    action,            \* resolver: the Action map_intent returned
    file,             \* the configuration file as load_from_file sees it
    events,           \* rx of init_shared_config: DebouncedEvents not yet received
    produced,         \* number of events the watcher has sent so far
    watcher,          \* the local `watcher` of init_shared_config: "watching" | "dropped"
    wthread,          \* position of the reload thread: "recv" | "exited" | "panicked"
    lastReload,       \* outcome of the last reload: "none" | "ok" | an error kind
    resolver,         \* position of a try_apply_alias call that is followed step by step
    upd,              \* the update-settings handler: position, request, response
    disk,             \* what save_config_to_file has written to the config file
    exec              \* a call of execute_action_on_platform: position, loops, calls made

\* what no step of a request, a wrapper or the worker's task handling changes
watchVars == <<file, events, produced, watcher, wthread, lastReload>>
settingsVars == <<upd, disk>>
auxVars == <<resolver, settingsVars, exec>>
build == <<api, sched, antiflood, sender, nlp_result, shared_config, action, watchVars, auxVars>>
vars == <<api, sched, antiflood, lastCommandTime, cfgOwner, hpc, tasks, cancelRx,
          abortReq, wr, queue, wk, cur, executing, startLog, action_result, resp,
          lastStop, opReturned, sequential, stopPhase, sender, nlp_result,
          shared_config, action, watchVars, auxVars>>

Range(s) == {s[i] : i \in 1..Len(s)}

\* the registry, the channel, the worker and the histories at start-up
InitTasks ==
    /\ lastCommandTime = FALSE
    /\ cfgOwner = Unlocked
    /\ hpc = [r \in Tasks |-> "idle"]
    /\ tasks = [t \in Tasks |-> NoRecord]
    /\ cancelRx = [t \in Tasks |-> FALSE]
    /\ abortReq = [t \in Tasks |-> FALSE]
    /\ wr = [t \in Tasks |-> "none"]
    /\ queue = <<>>
    /\ wk = "recv"
    /\ cur = NoTask
    /\ executing = {}
    /\ startLog = <<>>
    /\ action_result = NoResult
    /\ resp = [t \in Tasks |-> [id |-> NoTask, status |-> NoStatus]]
    /\ lastStop = "none"
    /\ opReturned = {}
    /\ sequential = TRUE
    /\ stopPhase = [t \in Tasks |-> "none"]
    /\ sender = TRUE

\* the task lifecycle does not look at what an intent resolves to or at the
\* configuration's content (the mutex is cfgOwner): both stay as they start
ResolverIdle ==
    /\ nlp_result = NLPResult("", EmptyMap)
    /\ shared_config = SharedConfig(None, FALSE)
    /\ action = NoAction

\* no call of try_apply_alias is followed step by step
NoCall == [pc |-> "idle", matched |-> 0, steps |-> <<>>, snapshot |-> None]

\* no update-settings request has been made
NoRequest == [pc |-> "idle", n |-> 0, name |-> "", value |-> None, resp |-> "none",
              before |-> None, diskBefore |-> None]

\* no action is being executed
NoExec == [pc |-> "idle", frames |-> <<>>, log |-> <<>>, result |-> NoResult]

AuxIdle ==
    /\ resolver = NoCall
    /\ upd = NoRequest
    /\ disk = None
    /\ exec = NoExec

\* no configuration file is watched
WatcherIdle ==
    /\ file = FileState(FALSE, TRUE, SecureMode, TRUE, "garbage")
    /\ events = <<>>
    /\ produced = 0
    /\ watcher = "dropped"
    /\ wthread = "exited"
    /\ lastReload = "none"

Init ==
    /\ api \in {"main", "webapi"}
    /\ sched \in {"task_scheduler", "task/scheduler"}
    /\ antiflood \in (IF api = "webapi" THEN BOOLEAN ELSE {FALSE})
    /\ InitTasks
    /\ ResolverIdle
    /\ WatcherIdle
    /\ AuxIdle

\* --------------------------------------------- submit-command (execute_command)
\* Requests are issued in id order (each gets a fresh UUID); a request is
\* issued with the first step its handler takes.
CanIssue(r) ==
    /\ sender
    /\ hpc[r] = "idle"
    /\ IF r = 1 THEN TRUE ELSE hpc[r - 1] # "idle"

AllEarlierReturned(r) == \A i \in Tasks : i < r => hpc[i] = "returned"

\* handlers.rs 66-70: the request is routed to execute_command, which asks
\* for the configuration mutex as its first statement
\* (`data.config.lock().unwrap()`) and waits there while another thread
\* holds it. (main.rs takes no lock here.)
execute_command_arrives(r) ==
    /\ api = "webapi"
    /\ CanIssue(r)
    /\ hpc' = [hpc EXCEPT ![r] = "lock"]
    /\ sequential' = (sequential /\ AllEarlierReturned(r))
    /\ UNCHANGED <<build, opReturned, lastCommandTime, cfgOwner, tasks, cancelRx, abortReq, wr,
                   queue, wk, cur, executing, startLog, action_result, resp, lastStop,
                   stopPhase>>

\* handlers.rs 70-90. `let config_lock = data.config.lock().unwrap()` is a
\* guard that lives until the handler returns. With anti-flood on, a request
\* that comes too soon after the last accepted one is answered 429 (the
\* guard is dropped on return); otherwise the request is accepted and
\* LAST_COMMAND_TIME is set. Whether the delay has elapsed is the
\* environment's choice. (main.rs has none of this.)
execute_command_begin(r) ==
    /\ hpc[r] = "lock"
    /\ cfgOwner = Unlocked
    /\ \E tooSoon \in BOOLEAN :
          IF antiflood /\ lastCommandTime /\ tooSoon
          THEN /\ hpc' = [hpc EXCEPT ![r] = "rejected"]
               /\ UNCHANGED <<cfgOwner, lastCommandTime>>
          ELSE /\ hpc' = [hpc EXCEPT ![r] = "map_intent"]
               /\ cfgOwner' = r
               /\ lastCommandTime' = (lastCommandTime \/ antiflood)
    /\ UNCHANGED <<build, opReturned, tasks, cancelRx, abortReq, wr, queue, wk, cur, executing,
                   startLog, action_result, resp, lastStop, sequential, stopPhase>>

\* map_intent -> try_apply_alias locks the configuration
\* (`shared_config.lock().ok()?`) and releases it on return. std's Mutex is
\* not re-entrant: when the calling thread already holds it, lock() never
\* returns. Otherwise the call waits for the mutex, resolves and returns.
\* In main.rs this is the handler's first access to shared state.
map_intent(r) ==
    /\ IF api = "main" THEN CanIssue(r) ELSE hpc[r] = "map_intent"
    /\ IF cfgOwner = r
       THEN hpc' = [hpc EXCEPT ![r] = "hung"]
       ELSE /\ cfgOwner = Unlocked
            /\ hpc' = [hpc EXCEPT ![r] = "register"]
    /\ sequential' = IF api = "main" THEN sequential /\ AllEarlierReturned(r) ELSE sequential
    /\ UNCHANGED <<build, opReturned, lastCommandTime, cfgOwner, tasks, cancelRx, abortReq, wr, queue,
                   wk, cur, executing, startLog, action_result, resp, lastStop,
                   stopPhase>>

\* tasks_lock.insert(task_id, (task_info.clone(), Some(cancel_tx), None)),
\* then tokio::spawn(async move { schedule(task); select! { cancel_rx => .. } }):
\* the record is in the registry and the wrapper exists, not yet polled.
execute_command_register(r) ==
    /\ hpc[r] = "register"
    /\ tasks' = [tasks EXCEPT ![r] = TaskRecord(StatusQueued(api), TRUE, FALSE)]
    /\ wr' = [wr EXCEPT ![r] = "spawned"]
    /\ hpc' = [hpc EXCEPT ![r] = "attach"]
    /\ UNCHANGED <<build, opReturned, lastCommandTime, cfgOwner, cancelRx, abortReq, queue, wk, cur,
                   executing, startLog, action_result, resp, lastStop, sequential,
                   stopPhase>>

\* mutant of AttachHandle: the record is inserted again without looking
\* whether it is still there
AttachHandleUnconditional(reg, r) ==
    [reg EXCEPT ![r] = TaskRecord(IF reg[r].present THEN reg[r].status ELSE StatusQueued(api),
                                  TRUE, TRUE)]

\* if let Some((task_info, _, _)) = tasks_lock.get_mut(&task_id) {
\*     tasks_lock.insert(task_id, (task_info.clone(), Some(cancel_tx), Some(handle))) }
AttachHandle(reg, r) ==
    IF reg[r].present
    THEN [reg EXCEPT ![r] = TaskRecord(reg[r].status, TRUE, TRUE)]
    ELSE reg

\* body of the response: handlers.rs answers json(&task_info) with the
\* TaskInfo built at submission (status Queued); main.rs answers the text
\* "Task '..' scheduled with id <id>."
SubmitResponse(r) ==
    [id |-> r, status |-> IF api = "webapi" THEN StatusQueued(api) ELSE NoStatus]

\* the handle is attached to the record, the response is returned and the
\* handler's locals (the configuration guard of handlers.rs) are dropped
execute_command_respond(r) ==
    /\ hpc[r] = "attach"
    /\ tasks' = AttachHandle(tasks, r)
    /\ resp' = [resp EXCEPT ![r] = SubmitResponse(r)]
    /\ cfgOwner' = IF cfgOwner = r THEN Unlocked ELSE cfgOwner
    /\ hpc' = [hpc EXCEPT ![r] = "returned"]
    /\ UNCHANGED <<build, opReturned, lastCommandTime, cancelRx, abortReq, wr, queue, wk, cur,
                   executing, startLog, action_result, lastStop, sequential,
                   stopPhase>>

\* ------------------------------------------------------- supervisory wrapper
\* TaskScheduler::schedule: sender.send(task); a send error (the worker's
\* receiver is gone) is only logged.
schedule(q, t) == IF wk # "exited" THEN Append(q, t) ELSE q

\* first poll of the wrapper: scheduler_clone.schedule(task), then it waits
\* in select! for the cancel channel
wrapper_schedule(t) ==
    /\ wr[t] = "spawned"
    /\ queue' = schedule(queue, t)
    /\ wr' = [wr EXCEPT ![t] = "waiting"]
    /\ UNCHANGED <<build, opReturned, lastCommandTime, cfgOwner, hpc, tasks, cancelRx, abortReq, wk,
                   cur, executing, startLog, action_result, resp, lastStop,
                   sequential, stopPhase>>

\* if let Some((task_info, _, _)) = tasks_lock.get_mut(&id) { task_info.status = Cancelled }
MarkCancelled(reg, t) ==
    IF reg[t].present
    THEN [reg EXCEPT ![t].status = StatusCancelled(api)]
    ELSE reg

\* select! { _ = cancel_rx => .. }: the cancel channel has resolved
wrapper_cancelled(t) ==
    /\ wr[t] = "waiting"
    /\ cancelRx[t]
    /\ tasks' = MarkCancelled(tasks, t)
    /\ wr' = [wr EXCEPT ![t] = "done"]
    /\ UNCHANGED <<build, opReturned, lastCommandTime, cfgOwner, hpc, cancelRx, abortReq, queue, wk,
                   cur, executing, startLog, action_result, resp, lastStop,
                   sequential, stopPhase>>

\* JoinHandle::abort takes effect where the wrapper is suspended: before its
\* first poll (the task is then dropped unscheduled) or in select!
wrapper_aborted(t) ==
    /\ wr[t] \in {"spawned", "waiting"}
    /\ abortReq[t]
    /\ wr' = [wr EXCEPT ![t] = "aborted"]
    /\ UNCHANGED <<build, opReturned, lastCommandTime, cfgOwner, hpc, tasks, cancelRx, abortReq, queue,
                   wk, cur, executing, startLog, action_result, resp, lastStop,
                   sequential, stopPhase>>

\* ------------------------------------------------------------------- stop
\* where task t is in its life: not yet started by the worker, with its
\* operation executing, or with its operation returned
Phase(t) ==
    IF t \in executing THEN "running"
    ELSE IF t \in opReturned THEN "finished"
    ELSE "queued"

\* mutant of StopEffectOnWorker: stopping a task interrupts its operation
\* and sends the worker back to its receive
StopInterruptsWorker(t, w) ==
    IF t \in w.executing
    THEN [pc |-> "recv", executing |-> w.executing \ {t}]
    ELSE w

\* stop_task touches the registry, the cancel channel and the wrapper's
\* handle only: the worker thread is left as it is
StopEffectOnWorker(t, w) == w

\* stop_task: tasks_lock.remove(&id); on Some: cancel_tx.send(()) and
\* join_handle.abort(), 200; on None: 404. A client may ask for any id at any
\* time, also one that is not (or not yet) in the registry.
stop_task(t) ==
    /\ sender
    /\ IF tasks[t].present
       THEN /\ tasks' = [tasks EXCEPT ![t] = NoRecord]
            /\ cancelRx' = [cancelRx EXCEPT ![t] = cancelRx[t] \/ tasks[t].cancel_tx]
            /\ abortReq' = [abortReq EXCEPT ![t] = abortReq[t] \/ tasks[t].handle]
            /\ lastStop' = "ok"
            /\ stopPhase' = [stopPhase EXCEPT ![t] = Phase(t)]
       ELSE /\ lastStop' = "notfound"
            /\ UNCHANGED <<tasks, cancelRx, abortReq, stopPhase>>
    /\ LET w == StopEffectOnWorker(t, [pc |-> wk, executing |-> executing])
       IN  wk' = w.pc /\ executing' = w.executing
    /\ UNCHANGED <<build, opReturned, lastCommandTime, cfgOwner, hpc, wr, queue, cur, startLog,
                   action_result, resp, sequential>>

\* ----------------------------------------------------------------- worker
\* mutant of WorkerAtRecv: a second receive while an operation is executing
\* (as a pool of workers on one channel would do)
WorkerAtRecvOrExec == wk \in {"recv", "exec"}

\* the worker is one thread in `loop { match rx.recv() { .. } }`: it receives
\* only when it is back at the head of the loop
WorkerAtRecv == wk = "recv"

\* Ok(task) = rx.recv(), then
\* task_scheduler.rs 45-65: lock the configuration for the notifications
\* (after the previous task's success notification, 68-75, which takes the
\* same lock), release it, and call (task.action)();
\* task/scheduler.rs 57-62: `let config_lock = ..lock().unwrap()` is a guard
\* that lives to the end of the match arm, then (task.action)() is called.
\* Neither writes a status: the operation starts with the record as it is.
worker_recv ==
    /\ WorkerAtRecv
    /\ queue # <<>>
    /\ cfgOwner = Unlocked
    /\ cur' = Head(queue)
    /\ queue' = Tail(queue)
    /\ cfgOwner' = IF sched = "task/scheduler" THEN WorkerThread ELSE Unlocked
    /\ executing' = executing \cup {Head(queue)}
    /\ startLog' = Append(startLog, Head(queue))
    /\ action_result' = NoResult
    /\ wk' = "exec"
    /\ UNCHANGED <<build, opReturned, lastCommandTime, hpc, tasks, cancelRx, abortReq, wr,
                   resp, lastStop, sequential, stopPhase>>

\* mutant of RecordResult: the result is written with an insert, which
\* creates the record when it is not in the registry
RecordResultInserts(reg, t, res) ==
    [reg EXCEPT ![t] = TaskRecord(ResultStatus(api, res),
                                  IF reg[t].present THEN reg[t].cancel_tx ELSE FALSE,
                                  IF reg[t].present THEN reg[t].handle ELSE FALSE)]

\* if let Some((task_info, _, _)) = tasks_lock.get_mut(&task_id) {
\*     task_info.status = <status of action_result> }
RecordResult(reg, t, res) ==
    IF reg[t].present
    THEN [reg EXCEPT ![t].status = ResultStatus(api, res)]
    ELSE reg

\* after (task.action)() has returned:
\* task_scheduler.rs 68-82: success notification, back to rx.recv(), whatever
\* the operation returned;
\* task/scheduler.rs 64: shared_config_clone.lock().unwrap() while the guard
\* of line 57 is still alive: the lock never returns.
WorkerAfterTask(res) == IF cfgOwner = WorkerThread THEN "hung" ELSE "recv"

\* The executor returns Ok(()) or Err(reason), as it decides, to the task
\* closure; the closure writes the result into the registry and returns to
\* the worker, which goes on with its loop. (Between the executor's return
\* and the write the closure touches nothing shared, so the two are one step.)
worker_task_done ==
    /\ wk = "exec"
    /\ \E res \in Results :
          /\ action_result' = res
          /\ tasks' = RecordResult(tasks, cur, res)
          /\ wk' = WorkerAfterTask(res)
    /\ opReturned' = opReturned \cup {cur}
    /\ executing' = executing \ {cur}
    /\ UNCHANGED <<build, lastCommandTime, cfgOwner, hpc, cancelRx, abortReq, wr, queue,
                   cur, startLog, resp, lastStop, sequential, stopPhase>>

\* --------------------------------------------------------------- shutdown
\* main returns once the HTTP server has stopped: no handler is in flight,
\* the runtime drops the wrappers that are still pending (each owns a clone
\* of the Arc<TaskScheduler>), and AppState and main's own Arc are dropped.
\* With the last Arc the TaskScheduler and its mpsc::Sender are dropped.
main_returns ==
    /\ sender
    /\ \A r \in Tasks : hpc[r] \in {"idle", "returned", "rejected"}
    /\ sender' = FALSE
    /\ wr' = [t \in Tasks |-> IF wr[t] \in {"spawned", "waiting"} THEN "aborted" ELSE wr[t]]
    /\ UNCHANGED <<api, sched, antiflood, nlp_result, shared_config, action, watchVars, auxVars,
                   lastCommandTime, cfgOwner, hpc, tasks, cancelRx,
                   abortReq, queue, wk, cur, executing, startLog, action_result, resp,
                   lastStop, opReturned, sequential, stopPhase>>

\* mutant of Disconnected: the disconnect is reported as soon as the senders
\* are gone, whatever is still buffered in the channel
DisconnectedIgnoresBuffer(q) == ~sender

\* rx.recv() returns Err(RecvError) when every Sender is dropped and the
\* channel holds no message; buffered tasks are still received before
Disconnected(q) == ~sender /\ q = <<>>

\* Err(_) => break: the worker leaves its loop and the thread ends
worker_disconnected ==
    /\ WorkerAtRecv
    /\ Disconnected(queue)
    /\ wk' = "exited"
    /\ UNCHANGED <<build, lastCommandTime, cfgOwner, hpc, tasks, cancelRx, abortReq, wr,
                   queue, cur, executing, startLog, action_result, resp, lastStop,
                   opReturned, sequential, stopPhase>>

\* ------------------------------------------------------------ specification
Next ==
    \/ \E r \in Tasks : execute_command_arrives(r)
    \/ \E r \in Tasks : execute_command_begin(r)
    \/ \E r \in Tasks : map_intent(r)
    \/ \E r \in Tasks : execute_command_register(r)
    \/ \E r \in Tasks : execute_command_respond(r)
    \/ \E t \in Tasks : wrapper_schedule(t)
    \/ \E t \in Tasks : wrapper_cancelled(t)
    \/ \E t \in Tasks : wrapper_aborted(t)
    \/ \E t \in Tasks : stop_task(t)
    \/ worker_recv
    \/ worker_task_done
    \/ main_returns
    \/ worker_disconnected

Spec == Init /\ [][Next]_vars

\* ======================================================= alias resolution
\* map_intent as a function of its arguments: Init draws an NLPResult and a
\* configuration, resolve applies map_intent to them.
MaxAliases == 2
MaxSteps == 2

SeqsUpTo(S, n) == UNION {[1..k -> S] : k \in 0..n}

\* parameter maps a caller may send
ParamValues(k) ==
    CASE k = "app" -> {"mine.exe"}
      [] k = "object" -> {"obj.exe"}
      [] k = "hint" -> {"h"}
AliasCallerParams ==
    UNION {{m \in [K -> {"mine.exe", "obj.exe", "h"}] : \A k \in K : m[k] \in ParamValues(k)} :
             K \in SUBSET {"app", "object", "hint"}}
AliasCallerIntents ==
    {"open_chrome", "Open_Chrome", "browser", "loop", "morning", "launch_application",
     "frobnicate"}

\* rules of kind Single: the example of the specification; a second rule with
\* the same name in other letter case; a rule whose target is the name of
\* another alias; a rule whose target is its own name
SingleRules ==
    {AliasConfig("open_chrome", "launch_application", Some([app |-> "chrome.exe"]), None, None),
     AliasConfig("OPEN_CHROME", "focus_application",
                 Some([app |-> "firefox.exe", hint |-> "dflt"]), Some("single"), None),
     AliasConfig("browser", "open_chrome", None, None, None),
     AliasConfig("loop", "loop", Some([hint |-> "dflt"]), None, None)}

\* steps: a plain one with a default of its own; one that names an alias; one
\* that names the alias it is a step of
StepRules ==
    {AliasConfig("", "launch_application", Some([app |-> "step.exe"]), None, None),
     AliasConfig("", "open_chrome", None, None, None),
     AliasConfig("", "morning", Some([hint |-> "again"]), None, None)}

\* rules of kind Multi: "morning" with every list of at most MaxSteps steps,
\* and one that says "multi" but has no steps
MultiRules ==
    {AliasConfig("morning", "multi_step", Some([object |-> "parent.exe"]), Some("Multi"), Some(st)) :
        st \in SeqsUpTo(StepRules, MaxSteps)}
    \cup {AliasConfig("morning", "launch_application", Some([app |-> "solo.exe"]), Some("multi"), None)}

\* alias tables: at most MaxAliases rules, at most one of them of kind Multi
AliasTables ==
    {t \in SeqsUpTo(SingleRules \cup MultiRules, MaxAliases) :
        Cardinality({k \in DOMAIN t : t[k] \in MultiRules}) <= 1}

\* a loaded configuration, none, or a poisoned mutex
AliasConfigs ==
    {SharedConfig(Some(AppConfig(t, "ru")), FALSE) : t \in AliasTables}
    \cup {SharedConfig(None, FALSE), SharedConfig(None, TRUE),
          SharedConfig(Some(AppConfig(<<AliasConfig("frobnicate", "screenshot", None, None, None)>>, "ru")), TRUE)}

InitResolve ==
    /\ api = "main"
    /\ sched = "task_scheduler"
    /\ antiflood = FALSE
    /\ InitTasks
    /\ nlp_result \in {NLPResult(i, p) : i \in AliasCallerIntents, p \in AliasCallerParams}
    /\ shared_config \in AliasConfigs
    /\ action = NoAction
    /\ WatcherIdle
    /\ AuxIdle

taskVars == <<api, sched, antiflood, lastCommandTime, cfgOwner, hpc, tasks, cancelRx, abortReq,
              wr, queue, wk, cur, executing, startLog, action_result, resp, lastStop,
              opReturned, sequential, stopPhase, sender>>

\* let action = map_intent(&nlp_result, &data.config)
resolve ==
    /\ action = NoAction
    /\ action' = MapIntent(nlp_result, shared_config)
    /\ UNCHANGED <<taskVars, nlp_result, shared_config, watchVars, auxVars>>

NextResolve == resolve

SpecResolve == InitResolve /\ [][NextResolve]_vars

\* ---------------------------------------------------------------------------
\* The direct mapping of the intents with numeric and boolean fields, called
\* through map_intent with no configuration loaded.
\* ---------------------------------------------------------------------------
NumericStrings ==
    {"1024", "0", "007", "+7", "-5", "12a", "4294967295", "4294967296", "99999999999",
     " 8", ""}
StateStrings == {"true", "false", "True", "TRUE", "1", " true", ""}

\* the intents of the file arms of map_intent_impl (lines 237, 254) and
\* values of their "name" parameter
FileIntents == {"copy_file", "cut_file", "delete_file", "move_file", "rename_file"}
FileNames == {"a.txt", ""}

MapsOver(keys, values) == UNION {[K -> values] : K \in SUBSET keys}

DirectCalls ==
    {NLPResult("window_resize", p) : p \in MapsOver({"width", "height"}, NumericStrings)}
    \cup {NLPResult("window_move", p) : p \in MapsOver({"x", "y"}, NumericStrings)}
    \cup {NLPResult("checkbox_set_state", p) : p \in MapsOver({"state"}, StateStrings)}
    \cup {NLPResult(i, p) : i \in FileIntents, p \in MapsOver({"name"}, FileNames)}

InitDirect ==
    /\ api = "main"
    /\ sched = "task_scheduler"
    /\ antiflood = FALSE
    /\ InitTasks
    /\ nlp_result \in DirectCalls
    /\ shared_config = SharedConfig(None, FALSE)
    /\ action = NoAction
    /\ WatcherIdle
    /\ AuxIdle

SpecDirect == InitDirect /\ [][NextResolve]_vars

\* ---------------------------------------------------------------------------
\* init_shared_config: the initial load, the file watcher and the thread that
\* reloads the configuration
\* ---------------------------------------------------------------------------
MaxEvents == 2

\* DebouncedEvent: Write and Create trigger a reload, every other kind does not
EventKinds == {"Write", "Create", "Chmod"}

FileStates ==
    {FileState(e, b, m, r, c) :
        e \in BOOLEAN, b \in BOOLEAN, m \in {SecureMode, GroupWritableMode, OtherWritableMode},
        r \in BOOLEAN, c \in {"A", "B", "garbage"}}

\* what load_language() can return: the default and a language of config.conf
Languages == {"ru", "en"}

\* lines 110-116: load_from_file(..).ok() with the language of config.conf
InitialConfig(f, language) ==
    LET r == load_from_file(f)
    IN  SharedConfig(IF r.ok THEN Some(AppConfig(r.val.aliases, language)) ELSE None, FALSE)

resolverVars == <<nlp_result, action, auxVars>>

InitReload ==
    /\ api = "main"
    /\ sched = "task_scheduler"
    /\ antiflood = FALSE
    /\ InitTasks
    /\ nlp_result = NLPResult("", EmptyMap)
    /\ action = NoAction
    /\ file \in FileStates
    /\ \E language \in Languages : shared_config = InitialConfig(file, language)
    /\ events = <<>>
    /\ produced = 0
    /\ watcher = "watching"
    /\ wthread = "recv"
    /\ lastReload = "none"
    /\ AuxIdle

\* the file is changed from outside, one property at a time
file_changes ==
    /\ \E f \in FileStates :
          /\ Cardinality({k \in DOMAIN f : f[k] # file[k]}) = 1
          /\ file' = f
    /\ UNCHANGED <<taskVars, resolverVars, shared_config, events, produced, watcher, wthread,
                   lastReload>>

\* the watcher, while it is alive, sends an event through tx
watcher_sends ==
    /\ watcher = "watching"
    /\ produced < MaxEvents
    /\ \E k \in EventKinds : events' = Append(events, k)
    /\ produced' = produced + 1
    /\ UNCHANGED <<taskVars, resolverVars, shared_config, file, watcher, wthread, lastReload>>

\* line 152: init_shared_config returns; `watcher` is a local that was not
\* moved into the thread, so it is dropped here and tx with it
init_shared_config_returns ==
    /\ watcher = "watching"
    /\ watcher' = "dropped"
    /\ UNCHANGED <<taskVars, resolverVars, shared_config, file, events, produced, wthread,
                   lastReload>>

\* lines 130-143: Ok(Write(_)) | Ok(Create(_)): load_from_file; Ok replaces
\* the value behind the mutex (lock().unwrap() panics when it is poisoned),
\* Err is printed and nothing else
\* mutant of MutexFree: the value is written without waiting for the mutex
MutexIgnored(owner) == TRUE

\* Mutex::lock returns when no thread holds the mutex
MutexFree(owner) == owner = Unlocked

reload ==
    /\ wthread = "recv"
    /\ events # <<>>
    /\ Head(events) \in {"Write", "Create"}
    /\ events' = Tail(events)
    /\ LET r == load_from_file(file)
       IN  IF r.ok
           THEN /\ MutexFree(cfgOwner)
                /\ lastReload' = "ok"
                /\ IF shared_config.poisoned
                   THEN wthread' = "panicked" /\ UNCHANGED shared_config
                   ELSE /\ shared_config' = SharedConfig(Some(r.val), FALSE)
                        /\ UNCHANGED wthread
           ELSE /\ lastReload' = r.err
                /\ UNCHANGED <<shared_config, wthread>>
    /\ UNCHANGED <<taskVars, resolverVars, file, produced, watcher>>

\* line 144: Ok(_) => {}
ignore_event ==
    /\ wthread = "recv"
    /\ events # <<>>
    /\ Head(events) \notin {"Write", "Create"}
    /\ events' = Tail(events)
    /\ UNCHANGED <<taskVars, resolverVars, shared_config, file, produced, watcher, wthread,
                   lastReload>>

\* lines 145-148: Err(e) => break: recv fails when tx is gone and nothing is
\* buffered
watcher_disconnected ==
    /\ wthread = "recv"
    /\ events = <<>>
    /\ watcher = "dropped"
    /\ wthread' = "exited"
    /\ UNCHANGED <<taskVars, resolverVars, shared_config, file, events, produced, watcher,
                   lastReload>>

NextReload ==
    \/ file_changes
    \/ watcher_sends
    \/ init_shared_config_returns
    \/ reload
    \/ ignore_event
    \/ watcher_disconnected

SpecReload == InitReload /\ [][NextReload]_vars

\* ---------------------------------------------------------------------------
\* A call of map_intent followed step by step, next to the reload thread
\* ---------------------------------------------------------------------------
SwapContents == {"A", "B", "M1", "M2"}

SwapCalls == {NLPResult("morning", EmptyMap), NLPResult("open_chrome", EmptyMap),
              NLPResult("frobnicate", EmptyMap)}

lifeVars == <<api, sched, antiflood, lastCommandTime, hpc, tasks, cancelRx, abortReq,
              wr, queue, wk, cur, executing, startLog, action_result, resp, lastStop,
              opReturned, sequential, stopPhase, sender>>

InitSwap ==
    /\ api = "main"
    /\ sched = "task_scheduler"
    /\ antiflood = FALSE
    /\ InitTasks
    /\ nlp_result \in SwapCalls
    /\ action = NoAction
    /\ \E c \in SwapContents : file = FileState(TRUE, TRUE, SecureMode, TRUE, c)
    /\ shared_config = InitialConfig(file, "ru")
    /\ events = <<>>
    /\ produced = 0
    /\ watcher = "watching"
    /\ wthread = "recv"
    /\ lastReload = "none"
    /\ AuxIdle

\* the file is rewritten with another configuration
file_rewritten ==
    /\ \E c \in SwapContents \ {file.content} : file' = [file EXCEPT !.content = c]
    /\ UNCHANGED <<taskVars, resolverVars, shared_config, events, produced, watcher, wthread,
                   lastReload>>

\* intent_mapper.rs 60: `let config_lock = shared_config.lock().ok()?`: the
\* guard is held until try_apply_alias returns; a poisoned mutex makes the
\* function return None at once
try_apply_alias_lock ==
    /\ resolver.pc = "idle"
    /\ action = NoAction
    /\ IF shared_config.poisoned
       THEN /\ resolver' = [resolver EXCEPT !.pc = "fallback", !.snapshot = Some(shared_config)]
            /\ UNCHANGED cfgOwner
       ELSE /\ MutexFree(cfgOwner)
            /\ cfgOwner' = ResolverThread
            /\ resolver' = [resolver EXCEPT !.pc = "locked", !.snapshot = Some(shared_config)]
    /\ UNCHANGED <<lifeVars, nlp_result, action, shared_config, watchVars, settingsVars, exec>>

\* lines 61-72 and 91-94: the scan for the first rule whose name is the intent;
\* a rule that is not multi is mapped and returned, no match returns None
\* (both drop the guard), a multi rule goes on to its steps
try_apply_alias_scan ==
    /\ resolver.pc = "locked"
    /\ IF ~shared_config.value.some
       THEN /\ resolver' = [resolver EXCEPT !.pc = "fallback"]
            /\ cfgOwner' = Unlocked
            /\ UNCHANGED action
       ELSE LET aliases == shared_config.value.val.aliases
                hits == {k \in DOMAIN aliases :
                            to_lowercase(aliases[k].alias) = to_lowercase(nlp_result.intent)}
            IN  IF hits = {}
                THEN /\ resolver' = [resolver EXCEPT !.pc = "fallback"]
                     /\ cfgOwner' = Unlocked
                     /\ UNCHANGED action
                ELSE LET k == CHOOSE h \in hits : \A g \in hits : h <= g
                         rule == aliases[k]
                     IN  IF /\ rule.command_type.some
                            /\ to_lowercase(rule.command_type.val) = Chars("multi")
                            /\ rule.steps.some
                         THEN /\ resolver' = [resolver EXCEPT !.pc = "steps", !.matched = k]
                              /\ UNCHANGED <<cfgOwner, action>>
                         ELSE /\ action' = ResolveTarget(WithDefaults(nlp_result, rule), aliases)
                              /\ resolver' = [resolver EXCEPT !.pc = "done", !.matched = k]
                              /\ cfgOwner' = Unlocked
    /\ UNCHANGED <<lifeVars, nlp_result, shared_config, watchVars, settingsVars, exec>>

\* `steps` borrows from the value behind the mutex: it is read where that
\* value is now
StepsBorrowed(shared, k) ==
    IF /\ shared.value.some
       /\ k \in DOMAIN shared.value.val.aliases
       /\ shared.value.val.aliases[k].steps.some
    THEN shared.value.val.aliases[k].steps.val
    ELSE <<>>

\* lines 74-87: one turn of steps.iter().map(..): the next step is mapped, or
\* the iterator is at its end and MultiStep is returned (the guard is dropped)
try_apply_alias_step ==
    /\ resolver.pc = "steps"
    /\ LET steps == StepsBorrowed(shared_config, resolver.matched)
           i == Len(resolver.steps) + 1
       IN  IF i <= Len(steps)
           THEN /\ resolver' = [resolver EXCEPT !.steps =
                                   Append(@, ResolveTarget(WithDefaults(nlp_result, steps[i]),
                                                           shared_config.value.val.aliases))]
                /\ UNCHANGED <<cfgOwner, action>>
           ELSE /\ action' = [type |-> "MultiStep", steps |-> resolver.steps]
                /\ resolver' = [resolver EXCEPT !.pc = "done"]
                /\ cfgOwner' = Unlocked
    /\ UNCHANGED <<lifeVars, nlp_result, shared_config, watchVars, settingsVars, exec>>

\* lines 99-102: try_apply_alias gave None: map_intent_impl(nlp_result)
map_intent_fallback ==
    /\ resolver.pc = "fallback"
    /\ action' = map_intent_impl(nlp_result)
    /\ resolver' = [resolver EXCEPT !.pc = "done"]
    /\ UNCHANGED <<taskVars, nlp_result, shared_config, watchVars, settingsVars, exec>>

NextSwap ==
    \/ file_rewritten
    \/ watcher_sends
    \/ init_shared_config_returns
    \/ reload
    \/ ignore_event
    \/ watcher_disconnected
    \/ try_apply_alias_lock
    \/ try_apply_alias_scan
    \/ try_apply_alias_step
    \/ map_intent_fallback

SpecSwap == InitSwap /\ [][NextSwap]_vars

\* ---------------------------------------------------------------------------
\* update_setting / update_config / save_config_to_file (main.rs 198-267,
\* webapi/handlers.rs 256-347)
\* ---------------------------------------------------------------------------
MaxRequests == 2

SettingsThread == 0 - 3

\* the fields of the configuration the settings handlers read and write
SettingsConfig(language, delay, enable, flood) ==
    [aliases |-> <<>>, language |-> language, notifications_delay |-> delay,
     notification_enable |-> enable, antiflood |-> flood]

\* bool::from_str: "true" and "false" and nothing else
ParseBool(s) ==
    CASE s = "true" -> Some(TRUE)
      [] s = "false" -> Some(FALSE)
      [] OTHER -> None

\* mutant of ApplySetting: the language is stored for whatever setting is named
ApplySettingAlwaysLanguage(a, cfg, name, value) ==
    [ok |-> name = "language", cfg |-> [cfg EXCEPT !.language = value]]

\* the match on setting_path: the field is assigned in the arm's Ok branch
\* only; main.rs knows notifications_delay and language, handlers.rs also
\* notification_enable and antiflood
ApplySetting(a, cfg, name, value) ==
    CASE name = "notifications_delay" ->
           IF ParseU32(value).some
           THEN [ok |-> TRUE, cfg |-> [cfg EXCEPT !.notifications_delay = ParseU32(value).val]]
           ELSE [ok |-> FALSE, cfg |-> cfg]
      [] name = "language" ->
           [ok |-> TRUE, cfg |-> [cfg EXCEPT !.language = value]]
      [] name = "notification_enable" /\ a = "webapi" ->
           IF ParseBool(value).some
           THEN [ok |-> TRUE, cfg |-> [cfg EXCEPT !.notification_enable = ParseBool(value).val]]
           ELSE [ok |-> FALSE, cfg |-> cfg]
      [] name = "antiflood" /\ a = "webapi" ->
           IF ParseBool(value).some
           THEN [ok |-> TRUE, cfg |-> [cfg EXCEPT !.antiflood = ParseBool(value).val]]
           ELSE [ok |-> FALSE, cfg |-> cfg]
      [] OTHER -> [ok |-> FALSE, cfg |-> cfg]

\* requests a client can send: a setting name and a ?value= parameter or none
RequestNames == {"notifications_delay", "language", "notification_enable", "antiflood", "volume"}
RequestValues == {Some(v) : v \in {"en", "1024", "12a", "true", "yes"}} \cup {None}

SettingsConfigs ==
    {SharedConfig(Some(SettingsConfig("ru", U32(0), TRUE, FALSE)), FALSE),
     SharedConfig(None, FALSE)}

InitSettings ==
    /\ api \in {"main", "webapi"}
    /\ sched = "task_scheduler"
    /\ antiflood = FALSE
    /\ InitTasks
    /\ nlp_result = NLPResult("", EmptyMap)
    /\ action = NoAction
    /\ shared_config \in SettingsConfigs
    /\ WatcherIdle
    /\ AuxIdle

\* update_config, first line: `let mut config_lock = config.lock().unwrap()`,
\* a guard that lives until update_config returns
update_config_lock ==
    /\ upd.pc \in {"idle", "returned"}
    /\ upd.n < MaxRequests
    /\ MutexFree(cfgOwner)
    /\ cfgOwner' = SettingsThread
    /\ \E name \in RequestNames, value \in RequestValues :
          upd' = [pc |-> "locked", n |-> upd.n + 1, name |-> name, value |-> value,
                  resp |-> "none", before |-> Some(shared_config), diskBefore |-> disk]
    /\ UNCHANGED <<lifeVars, nlp_result, action, shared_config, watchVars, resolver, disk, exec>>

\* the body of update_config up to the call of save_config_to_file: no
\* configuration -> None (404); no value -> Err (400); the match; Err -> 400.
\* The guard is dropped where update_config returns.
update_config_apply ==
    /\ upd.pc = "locked"
    /\ IF ~shared_config.value.some
       THEN /\ upd' = [upd EXCEPT !.pc = "returned", !.resp = "not_found"]
            /\ cfgOwner' = Unlocked
            /\ UNCHANGED shared_config
       ELSE IF ~upd.value.some
       THEN /\ upd' = [upd EXCEPT !.pc = "returned", !.resp = "bad_request"]
            /\ cfgOwner' = Unlocked
            /\ UNCHANGED shared_config
       ELSE LET r == ApplySetting(api, shared_config.value.val, upd.name, upd.value.val)
            IN  /\ shared_config' = [shared_config EXCEPT !.value = Some(r.cfg)]
                /\ IF r.ok
                   THEN /\ upd' = [upd EXCEPT !.pc = "save"]
                        /\ UNCHANGED cfgOwner
                   ELSE /\ upd' = [upd EXCEPT !.pc = "returned", !.resp = "bad_request"]
                        /\ cfgOwner' = Unlocked
    /\ UNCHANGED <<lifeVars, nlp_result, action, watchVars, resolver, disk, exec>>

\* save_config_to_file: `let config_lock = config.lock().unwrap()` on the
\* mutex whose guard update_config still holds: the second lock of the same
\* thread never returns. Were the mutex free, the configuration would be
\* written and update_setting would answer 200.
save_config_to_file ==
    /\ upd.pc = "save"
    /\ IF cfgOwner = SettingsThread
       THEN /\ upd' = [upd EXCEPT !.pc = "hung"]
            /\ UNCHANGED <<cfgOwner, disk>>
       ELSE /\ MutexFree(cfgOwner)
            /\ disk' = shared_config.value
            /\ upd' = [upd EXCEPT !.pc = "returned", !.resp = "ok"]
            /\ UNCHANGED cfgOwner
    /\ UNCHANGED <<lifeVars, nlp_result, action, shared_config, watchVars, resolver, exec>>

NextSettings ==
    \/ update_config_lock
    \/ update_config_apply
    \/ save_config_to_file

SpecSettings == InitSettings /\ [][NextSettings]_vars

\* every step of the handler is taken when it can be: the request is served
\* by a running thread
SpecSettingsFair == SpecSettings /\ WF_vars(NextSettings)

\* ---------------------------------------------------------------------------
\* The service as a whole: submit-command requests, the supervisory wrappers
\* and the worker next to an update-settings request; all of them use the
\* one SharedConfig mutex (AppState.config and the scheduler's clone of it,
\* main.rs 276-283). No task is stopped and main does not return.
\* ---------------------------------------------------------------------------
InitLive ==
    /\ api \in {"main", "webapi"}
    /\ sched \in {"task_scheduler", "task/scheduler"}
    /\ antiflood \in (IF api = "webapi" THEN BOOLEAN ELSE {FALSE})
    /\ InitTasks
    /\ nlp_result = NLPResult("", EmptyMap)
    /\ action = NoAction
    /\ shared_config = SharedConfig(Some(SettingsConfig("ru", U32(5), TRUE, antiflood)), FALSE)
    /\ WatcherIdle
    /\ AuxIdle

\* the steps of the submit-command handlers
Handlers ==
    \/ \E r \in Tasks : execute_command_arrives(r)
    \/ \E r \in Tasks : execute_command_begin(r)
    \/ \E r \in Tasks : map_intent(r)
    \/ \E r \in Tasks : execute_command_register(r)
    \/ \E r \in Tasks : execute_command_respond(r)

\* the steps of the supervisory wrappers on the tokio runtime
Wrappers == \E t \in Tasks : wrapper_schedule(t)

\* the steps of the worker thread
Worker == worker_recv \/ worker_task_done

NextLive ==
    \/ Handlers
    \/ Wrappers
    \/ Worker
    \/ NextSettings

\* handlers and wrappers are polled by the runtime and the worker is a
\* thread of its own: each takes its next step when it can
SpecLive ==
    /\ InitLive
    /\ [][NextLive]_vars
    /\ WF_vars(Handlers)
    /\ WF_vars(Wrappers)
    /\ WF_vars(Worker)
    /\ WF_vars(NextSettings)

\* ---------------------------------------------------------------------------
\* execute_action_on_platform (task/executor.rs 6-139)
\* ---------------------------------------------------------------------------
MaxExecSteps == 2

\* the variants execute_action_on_platform has an arm for (besides
\* MultiStep); every other variant falls to `_ => Err("Unsupported action..")`
SupportedTypes ==
    {"ButtonClick", "ButtonDoubleClick", "EditEnterText", "EditSelectText",
     "CheckboxSetState", "RadioSelect", "TreeViewSelect", "TreeViewExpand",
     "ListViewSelectItem", "TabControlSelectTab", "WindowResize", "WindowMinimize",
     "WindowMaximize", "WindowClose", "KeyPress", "Scroll", "LaunchApplication",
     "StaticGetText", "SetFocus"}

\* what the arm of a step that is no MultiStep returns: the controller's
\* PlatformResult, Ok(()) or Err(reason) as the platform decides, and Err
\* for a variant without an arm
StepOutcomes(step) ==
    IF step.type \in SupportedTypes THEN Results ELSE {ErrResult("unsupported")}

MultiStepOf(steps) == [type |-> "MultiStep", steps |-> steps]

\* steps a MultiStep is executed with: two supported variants, one without
\* an arm, and MultiSteps nested once and twice
ExecLeaves ==
    {[type |-> "LaunchApplication", app |-> "a.exe"],
     [type |-> "SetFocus", label |-> "OK"],
     [type |-> "Screenshot"]}
NestedSteps ==
    {MultiStepOf(<<>>),
     MultiStepOf(<<[type |-> "SetFocus", label |-> "OK"]>>),
     MultiStepOf(<<[type |-> "LaunchApplication", app |-> "b.exe"],
                   [type |-> "SetFocus", label |-> "Cancel"]>>),
     MultiStepOf(<<MultiStepOf(<<[type |-> "LaunchApplication", app |-> "c.exe"]>>),
                   [type |-> "Screenshot"]>>)}
ExecActions == {MultiStepOf(steps) : steps \in SeqsUpTo(ExecLeaves \cup NestedSteps, MaxExecSteps)}

InitExec ==
    /\ api = "main"
    /\ sched = "task_scheduler"
    /\ antiflood = FALSE
    /\ InitTasks
    /\ nlp_result = NLPResult("", EmptyMap)
    /\ shared_config = SharedConfig(None, FALSE)
    /\ action \in ExecActions
    /\ WatcherIdle
    /\ resolver = NoCall
    /\ upd = NoRequest
    /\ disk = None
    /\ exec = NoExec

execVars == <<taskVars, nlp_result, shared_config, action, watchVars, resolver, settingsVars>>

\* exec.frames: one entry per `for step in steps` loop that is active, the
\* innermost last; an entry holds the steps its loop has not reached yet
Push(frames, steps) == Append(frames, steps)
Pop(frames) == SubSeq(frames, 1, Len(frames) - 1)
Top(frames) == frames[Len(frames)]
Advance(frames) == [frames EXCEPT ![Len(frames)] = Tail(frames[Len(frames)])]

\* mutant of Try: the result of a step is dropped and the loop goes on
TryIgnoresError(res, frames) == frames

\* `execute_action_on_platform(step, controller)?`: Err returns from the
\* enclosing call, and the `?` of each caller's loop hands it on, so no loop
\* stays active; Ok lets the loops go on
Try(res, frames) == IF res.ok THEN frames ELSE <<>>

\* the call for the task's action, a MultiStep: Action::MultiStep { steps }
\* => the loop over its steps is entered
execute_action_on_platform ==
    /\ exec.pc = "idle"
    /\ exec' = [exec EXCEPT !.pc = "loop", !.frames = Push(<<>>, action.steps)]
    /\ UNCHANGED execVars

\* the loop takes its next step, which is a MultiStep: the recursive call
\* enters the loop over the step's own steps
execute_nested_multi_step ==
    /\ exec.pc = "loop"
    /\ Top(exec.frames) # <<>>
    /\ Head(Top(exec.frames)).type = "MultiStep"
    /\ exec' = [exec EXCEPT !.frames = Push(Advance(exec.frames), Head(Top(exec.frames)).steps)]
    /\ UNCHANGED execVars

\* the loop takes its next step, which is no MultiStep: the recursive call
\* runs the step's arm and returns its result to the `?`
execute_step ==
    /\ exec.pc = "loop"
    /\ Top(exec.frames) # <<>>
    /\ Head(Top(exec.frames)).type # "MultiStep"
    /\ \E res \in StepOutcomes(Head(Top(exec.frames))) :
          LET frames == Try(res, Advance(exec.frames))
          IN  exec' = [pc |-> IF frames = <<>> THEN "done" ELSE "loop",
                       frames |-> frames,
                       log |-> Append(exec.log, [step |-> Head(Top(exec.frames)), result |-> res]),
                       result |-> IF frames = <<>> THEN res ELSE exec.result]
    /\ UNCHANGED execVars

\* a loop is at its end: Ok(()) is returned, to the `?` of the caller's loop
\* or, from the outermost call, to the task
multi_step_returns ==
    /\ exec.pc = "loop"
    /\ Top(exec.frames) = <<>>
    /\ LET frames == Try(OkResult, Pop(exec.frames))
       IN  exec' = [exec EXCEPT !.frames = frames,
                                !.pc = IF frames = <<>> THEN "done" ELSE "loop",
                                !.result = IF frames = <<>> THEN OkResult ELSE exec.result]
    /\ UNCHANGED execVars

NextExec ==
    \/ execute_action_on_platform
    \/ execute_nested_multi_step
    \/ execute_step
    \/ multi_step_returns

SpecExec == InitExec /\ [][NextExec]_vars

\* ------------------------------------------------------------------ claims
\* Status classes: the variants of TaskStatus, and the strings main.rs
\* stores for the same moments of a task's life.
IsQueued(st) == st.kind \in {"Queued", "queued"}
IsRunning(st) == st.kind \in {"Running", "running"}
IsCompleted(st) == st.kind \in {"Completed", "Success"}
IsFailed(st) == st.kind \in {"Failed", "Failure"}
IsCancelled(st) == st.kind \in {"Cancelled", "cancelled"}

LifecycleStep(a, b) ==
    \/ IsQueued(a) /\ IsRunning(b)
    \/ IsRunning(a) /\ (IsCompleted(b) \/ IsFailed(b))
    \/ IsQueued(a) /\ IsCancelled(b)

\* C1: every change of the status a registry record shows is a step of
\* Queued -> Running -> {Completed, Failed} or Queued -> Cancelled; in
\* particular a record that shows Completed, Failed or Cancelled never
\* shows another status afterwards.
C1_StatusFollowsLifecycle ==
    [][\A t \in Tasks :
          (tasks[t].present /\ tasks'[t].present /\ tasks'[t].status # tasks[t].status)
              => LifecycleStep(tasks[t].status, tasks'[t].status)]_vars

\* C2: when every submit-command request returned before the next one was
\* issued, the worker starts the operations in submission order.
C2_SequentialSubmissionsStartInOrder ==
    sequential =>
        \A i, j \in 1..Len(startLog) : i < j => startLog[i] < startLog[j]

\* C3: at most one task's operation is executing at any time.
C3_AtMostOneExecuting == Cardinality(executing) <= 1

\* C3 witness: an operation is executing while another task waits in the
\* channel and its submission is still being handled.
C3_Witness ==
    \E t, u \in Tasks :
        /\ executing = {t}
        /\ u \in Range(queue)
        /\ hpc[u] = "attach"

\* C4: while a task's operation is executing, its record (if still present)
\* shows Running.
C4_RunningWhileExecuting ==
    \A t \in executing : tasks[t].present => IsRunning(tasks[t].status)

C6_CancelBeforeStartMarksCancelled ==
    [][\A t \in Tasks :
          (wr[t] = "waiting" /\ wr'[t] = "done" /\ stopPhase[t] = "queued")
              => tasks'[t].present /\ IsCancelled(tasks'[t].status)]_vars

\* C7: a task stopped while its operation was executing is not interrupted:
\* until the operation has returned it stays the executing task and the
\* worker has started nothing after it.
C7_StopDoesNotInterrupt ==
    \A t \in Tasks :
        (stopPhase[t] = "running" /\ t \notin opReturned) =>
            /\ t \in executing
            /\ wk = "exec"
            /\ startLog[Len(startLog)] = t

\* C7 witness: a task was stopped while executing, its operation returned
\* afterwards, and only then the next task was started.
C7_Witness ==
    \E t \in Tasks :
        /\ stopPhase[t] = "running"
        /\ t \in opReturned
        /\ Len(startLog) >= 2
        /\ startLog[Len(startLog) - 1] = t

\* C8: a stop answered not-found changes nothing; a stop is answered with
\* success only when it removes a record; and no id is stopped with success
\* twice, so every stop of an id after its successful stop is answered
\* not-found.
C8_StopNotFound ==
    [][/\ (lastStop' = "notfound" /\ lastStop # "notfound") =>
              UNCHANGED <<tasks, cancelRx, abortReq, wr, queue, wk, cur, executing, hpc>>
       /\ (lastStop' = "ok" /\ lastStop # "ok") =>
              \E t \in Tasks : tasks[t].present /\ ~tasks'[t].present
       /\ \A t \in Tasks :
              (tasks[t].present /\ ~tasks'[t].present) =>
                  lastStop' = "ok" /\ stopPhase[t] = "none"]_vars

\* C8 witness: every id the service generated has been stopped with success,
\* and a stop issued after the last of these successes (so a stop of an id
\* that had already been stopped) was answered not-found.
C8_Witness ==
    /\ \A t \in Tasks : stopPhase[t] # "none"
    /\ lastStop = "notfound"

\* C9: a submit-command request that is not rejected returns, and its
\* response carries the task's id and the status Queued, the task's record
\* having been inserted (and its wrapper spawned) before.
C9_SubmitReturnsQueued ==
    \A r \in Tasks :
        /\ hpc[r] # "hung"
        /\ hpc[r] = "returned" =>
              /\ resp[r].id = r
              /\ IsQueued(resp[r].status)
              /\ wr[r] # "none"

\* C10: when a task's operation has returned an error, the worker goes back
\* to receiving the next task.
C10_WorkerSurvivesFailure ==
    [][(action_result = NoResult /\ action_result' # NoResult /\ ~action_result'.ok)
          => wk' = "recv"]_vars

\* C11: once every sender is dropped and the worker's receive has reported
\* the disconnect, the worker has left its loop for good: the channel was
\* drained before, nothing is executing, and from then on no operation is
\* started and the worker never receives again.
C11_WorkerExitsOnDisconnect ==
    [][/\ (wk' = "exited") =>
              /\ ~sender' /\ queue' = <<>> /\ executing' = {}
       /\ (wk = "exited") =>
              /\ wk' = "exited"
              /\ startLog' = startLog
              /\ executing' = {}
              /\ queue' = queue]_vars

\* C11 witness: the worker has exited after it had executed a task that was
\* still buffered when the senders were dropped.
C11_Witness ==
    /\ wk = "exited"
    /\ Len(startLog) >= 1
    /\ \E t \in Tasks : t \in opReturned /\ wr[t] = "aborted" /\ tasks[t].present

\* C24 (as stated): no thread asks for the configuration mutex while it
\* holds it: the submit-command handler does not block in alias resolution
\* and the worker does not block after a task's operation.
C24_NoThreadLocksTwice ==
    /\ \A r \in Tasks : hpc[r] # "hung"
    /\ wk # "hung"

\* C23: every task that was submitted and is never stopped eventually shows
\* Completed or Failed in the registry, as long as the scheduler is not
\* dropped, whatever other requests are served meanwhile.
C23_SubmittedTaskEventuallyDone ==
    \A t \in Tasks :
        tasks[t].present ~>
            \/ tasks[t].present /\ (IsCompleted(tasks[t].status) \/ IsFailed(tasks[t].status))
            \/ stopPhase[t] # "none"
            \/ ~sender

\* C28: with anti-flood on, a submit-command request that arrives after a
\* command was accepted gets its answer from the anti-flood check: it is
\* rejected when it came too soon (and accepted otherwise).
C28_LaterRequestIsAnswered ==
    \A r \in Tasks :
        (antiflood /\ lastCommandTime /\ hpc[r] = "lock") ~> hpc[r] # "lock"

\* C25: a task whose stop succeeded before the worker began its operation
\* (the task was still queued, in the worker's queue or not yet there) never
\* has its operation started afterwards.
C25_StoppedWhileQueuedNeverStarts ==
    [][\A t \in Tasks :
          stopPhase[t] = "queued" => ~(t \notin executing /\ t \in executing')]_vars

\* C26: once a stop has removed the record of an id, the registry never
\* holds a record for that id again, whatever the worker, the wrapper and
\* the submit handler do afterwards.
C26_StoppedRecordNeverReappears ==
    \A t \in Tasks : stopPhase[t] # "none" => ~tasks[t].present

\* C26 witness: a task was stopped between its registration and the
\* handler's re-insert of the handle; afterwards the handler returned, the
\* worker ran the operation to its end and the wrapper saw the cancel
\* signal: all three writes met an absent record.
C26_Witness ==
    \E t \in Tasks :
        /\ stopPhase[t] = "queued"
        /\ hpc[t] = "returned"
        /\ t \in opReturned
        /\ wr[t] = "done"
        /\ tasks = [u \in Tasks |-> NoRecord]

\* ---------------------------------------------------------------------------
\* Alias resolution (specification SpecResolve).  What the claims expect is
\* written out here on its own terms: letter case is folded by a table, maps
\* are merged by a set-theoretic rule, and the first match is the least index.
\* ---------------------------------------------------------------------------
Resolved == action # NoAction

FoldCase(s) ==
    CASE s \in {"open_chrome", "Open_Chrome", "OPEN_CHROME"} -> "open_chrome"
      [] s \in {"multi", "Multi", "MULTI"} -> "multi"
      [] OTHER -> s

SameIgnoringCase(a, b) == FoldCase(a) = FoldCase(b)

\* the rules the resolver can read: none when nothing is loaded or the mutex
\* is poisoned
ReadableAliases ==
    IF ~shared_config.poisoned /\ shared_config.value.some
    THEN shared_config.value.val.aliases
    ELSE <<>>

MatchingRules == {k \in DOMAIN ReadableAliases :
                     SameIgnoringCase(ReadableAliases[k].alias, nlp_result.intent)}

FirstMatch == IF MatchingRules = {} THEN 0
              ELSE CHOOSE k \in MatchingRules : \A h \in MatchingRules : k <= h

MatchedRule == ReadableAliases[FirstMatch]

KindMulti(rule) == /\ rule.command_type.some
                   /\ SameIgnoringCase(rule.command_type.val, "multi")
                   /\ rule.steps.some

KindSingle(rule) == ~(rule.command_type.some /\ SameIgnoringCase(rule.command_type.val, "multi"))

DefaultsOf(rule) == IF rule.parameters.some THEN rule.parameters.val ELSE EmptyMap

\* the caller's parameters, plus each default whose key the caller did not send
CallerWins(caller, defaults) ==
    [k \in DOMAIN caller \cup DOMAIN defaults |->
        IF k \in DOMAIN caller THEN caller[k] ELSE defaults[k]]

\* the direct mapping of a rule's target intent with the merged parameters
DirectOf(rule) ==
    map_intent_impl(NLPResult(rule.intent, CallerWins(nlp_result.parameters, DefaultsOf(rule))))

\* C12: an alias of kind Single resolves to the direct mapping of its target
\* intent, with the caller's parameters plus the alias's defaults; a default
\* is used only for a key the caller did not send.  With no caller parameters
\* "open_chrome" -> launch_application {app: chrome.exe} gives
\* LaunchApplication {app: chrome.exe}.
C12_SingleAliasMergesDefaults ==
    (Resolved /\ FirstMatch > 0 /\ KindSingle(MatchedRule)) =>
        /\ action = DirectOf(MatchedRule)
        /\ (/\ MatchedRule.alias = "open_chrome"
            /\ MatchedRule.intent = "launch_application"
            /\ nlp_result.parameters = EmptyMap)
           => action = [type |-> "LaunchApplication", app |-> "chrome.exe"]
        /\ (/\ MatchedRule.intent = "launch_application"
            /\ "app" \in DOMAIN nlp_result.parameters
            /\ "object" \notin DOMAIN nlp_result.parameters)
           => action = [type |-> "LaunchApplication", app |-> nlp_result.parameters["app"]]

C12_Witness ==
    /\ Resolved
    /\ nlp_result = NLPResult("open_chrome", [app |-> "mine.exe", hint |-> "h"])
    /\ FirstMatch = 1
    /\ MatchedRule = AliasConfig("open_chrome", "launch_application",
                                 Some([app |-> "chrome.exe"]), None, None)
    /\ action = [type |-> "LaunchApplication", app |-> "mine.exe"]

\* C13: an alias of kind Multi with N steps resolves to MultiStep of N
\* actions in the order of the steps; step i is the direct mapping of the
\* step's intent with the caller's parameters plus the step's own defaults
\* (the parent alias's defaults are not passed on).
C13_MultiAliasResolvesEachStep ==
    (Resolved /\ FirstMatch > 0 /\ KindMulti(MatchedRule)) =>
        /\ action.type = "MultiStep"
        /\ Len(action.steps) = Len(MatchedRule.steps.val)
        /\ \A i \in DOMAIN MatchedRule.steps.val :
              action.steps[i] = DirectOf(MatchedRule.steps.val[i])

C13_Witness ==
    /\ Resolved
    /\ nlp_result = NLPResult("morning", [hint |-> "h"])
    /\ FirstMatch > 0
    /\ KindMulti(MatchedRule)
    /\ MatchedRule.parameters = Some([object |-> "parent.exe"])
    /\ action = [type |-> "MultiStep",
                 steps |-> <<[type |-> "LaunchApplication", app |-> "step.exe"],
                             [type |-> "Unknown", hint |-> "h"]>>]

\* C14: alias names are compared ignoring letter case, and of several rules
\* with the same name the first in the table is applied, never a later one.
C14_FirstMatchIgnoringCase ==
    Resolved =>
        IF FirstMatch = 0
        THEN action = map_intent_impl(nlp_result)
        ELSE IF KindMulti(MatchedRule)
             THEN action.type = "MultiStep"
             ELSE action = DirectOf(MatchedRule)

C14_Witness ==
    /\ Resolved
    /\ nlp_result.intent = "Open_Chrome"
    /\ Len(ReadableAliases) = 2
    /\ ReadableAliases[1].alias = "open_chrome"
    /\ ReadableAliases[2].alias = "OPEN_CHROME"
    /\ MatchingRules = {1, 2}
    /\ action.type = "LaunchApplication"

\* C15: the target intent of an alias of kind Single goes through the direct
\* mapping only: when the target is itself the name of an alias, that second
\* alias is not applied.  An intent that matches no alias goes through the
\* direct mapping unchanged.
TargetNamesAlias(rule) ==
    \E k \in DOMAIN ReadableAliases : SameIgnoringCase(ReadableAliases[k].alias, rule.intent)

MergedHint(rule) ==
    LET m == CallerWins(nlp_result.parameters, DefaultsOf(rule))
    IN  IF "hint" \in DOMAIN m THEN m["hint"] ELSE FallbackHint

C15_AliasTargetNotResolvedAgain ==
    Resolved =>
        /\ (FirstMatch > 0 /\ KindSingle(MatchedRule) /\ TargetNamesAlias(MatchedRule)
              /\ MatchedRule.intent \in {"open_chrome", "loop"})
           => action = [type |-> "Unknown", hint |-> MergedHint(MatchedRule)]
        /\ (FirstMatch = 0 /\ nlp_result.intent = "launch_application"
              /\ DOMAIN nlp_result.parameters = {"app"})
           => action = [type |-> "LaunchApplication", app |-> nlp_result.parameters["app"]]
        /\ (FirstMatch = 0 /\ nlp_result.intent \in {"open_chrome", "browser", "loop", "morning"}
              /\ "hint" \notin DOMAIN nlp_result.parameters)
           => action = [type |-> "Unknown", hint |-> FallbackHint]

C15_Witness ==
    /\ Resolved
    /\ nlp_result = NLPResult("browser", EmptyMap)
    /\ Len(ReadableAliases) = 2
    /\ ReadableAliases[1] = AliasConfig("browser", "open_chrome", None, None, None)
    /\ ReadableAliases[2].alias = "open_chrome"
    /\ ReadableAliases[2].intent = "launch_application"
    /\ action = [type |-> "Unknown", hint |-> FallbackHint]

\* C16 (as stated): a step of a Multi alias whose intent is itself the name
\* of an alias in the table is resolved through that alias, so the step's
\* action is the expansion of the nested alias and not the direct mapping of
\* the step's intent string.
NestedRuleOf(step) ==
    LET hits == {k \in DOMAIN ReadableAliases :
                    SameIgnoringCase(ReadableAliases[k].alias, step.intent)}
    IN  ReadableAliases[CHOOSE k \in hits : \A h \in hits : k <= h]

NestedExpansion(step) ==
    LET nested == NestedRuleOf(step)
        stepParams == CallerWins(nlp_result.parameters, DefaultsOf(step))
    IN  map_intent_impl(NLPResult(nested.intent, CallerWins(stepParams, DefaultsOf(nested))))

C16_StepResolvedThroughAliasTable ==
    (Resolved /\ FirstMatch > 0 /\ KindMulti(MatchedRule)) =>
        \A i \in DOMAIN MatchedRule.steps.val :
            (/\ TargetNamesAlias(MatchedRule.steps.val[i])
             /\ KindSingle(NestedRuleOf(MatchedRule.steps.val[i])))
            => action.steps[i] = NestedExpansion(MatchedRule.steps.val[i])

\* the intent strings of the direct mapping
KnownIntents ==
    {"button_click", "button_double_click", "edit_enter_text", "edit_select_text",
     "edit_copy_text", "edit_cut_text", "edit_clear_field", "edit_delete_text",
     "edit_paste_text", "static_get_text", "set_text", "set_focus", "checkbox_set_state",
     "radio_select", "treeview_select", "treeview_expand", "listview_select_item",
     "tabcontrol_select_tab", "window_resize", "window_minimize", "window_maximize",
     "window_close", "window_move", "launch_object", "launch_application", "focus_object",
     "focus_application", "group_windows", "window_minimize_all", "window_maximize_all",
     "window_close_all", "open_file", "list_select", "key_press", "scroll", "screenshot",
     "spinner_adjust", "select_files", "copy_file", "cut_file", "delete_file", "move_file",
     "rename_file", "paste_files", "create_directory", "delete_directory", "create_file",
     "multi_step"}

ActionVariants ==
    {"ButtonClick", "ButtonDoubleClick", "EditEnterText", "EditSelectText", "EditCopyText",
     "EditCutText", "EditClearField", "EditDeleteText", "EditPasteText", "StaticGetText",
     "SetText", "SetFocus", "CheckboxSetState", "RadioSelect", "TreeViewSelect",
     "TreeViewExpand", "ListViewSelectItem", "TabControlSelectTab", "WindowResize",
     "WindowMinimize", "WindowMaximize", "WindowClose", "WindowMove", "LaunchApplication",
     "FocusApplication", "GroupWindows", "WindowMinimizeAll", "WindowMaximizeAll",
     "WindowCloseAll", "OpenFileProperties", "ListSelect", "KeyPress", "Scroll", "Screenshot",
     "SpinnerAdjust", "SelectFiles", "FileOperation", "PasteFiles", "CreateDirectory",
     "DeleteDirectory", "CreateFile", "DeleteFile", "MultiStep", "Unknown", "LaunchObject",
     "FocusObject"}

SelfReferring ==
    /\ FirstMatch > 0
    /\ \/ SameIgnoringCase(MatchedRule.intent, MatchedRule.alias)
       \/ /\ KindMulti(MatchedRule)
          /\ \E i \in DOMAIN MatchedRule.steps.val :
                SameIgnoringCase(MatchedRule.steps.val[i].intent, MatchedRule.alias)

C18_ResolutionTerminates ==
    /\ ~Resolved => MapIntent(nlp_result, shared_config) # NoAction
    /\ (Resolved /\ action.type = "MultiStep") =>
          \A i \in DOMAIN action.steps :
              action.steps[i].type = "MultiStep" => action.steps[i].steps = <<>>

C18_Witness ==
    /\ Resolved
    /\ SelfReferring
    /\ KindMulti(MatchedRule)
    /\ Len(action.steps) = 2
    /\ action.steps[2] = [type |-> "Unknown", hint |-> "again"]

\* ---------------------------------------------------------------------------
\* Direct mapping (specification SpecDirect).  What a string is as an
\* unsigned 32-bit number is given by a table of its own.
\* ---------------------------------------------------------------------------
NumberOf(s) ==
    CASE s = "1024" -> [hi |-> 0, lo |-> 1024]
      [] s = "0" -> [hi |-> 0, lo |-> 0]
      [] s = "007" -> [hi |-> 0, lo |-> 7]
      [] s = "+7" -> [hi |-> 0, lo |-> 7]
      [] s = "4294967295" -> [hi |-> 65535, lo |-> 65535]

IsNumber(s) == s \in {"1024", "0", "007", "+7", "4294967295"}

FieldOr(k, d) ==
    IF k \in DOMAIN nlp_result.parameters /\ IsNumber(nlp_result.parameters[k])
    THEN NumberOf(nlp_result.parameters[k])
    ELSE [hi |-> 0, lo |-> d]

\* C19: window_resize takes width and height from the parameters when they
\* are there and are unsigned 32-bit numbers, else 800 and 600, each field on
\* its own; window_move takes x and y the same way with 0; checkbox_set_state
\* has state true only for the parameter "true", false for any other value
\* and when the parameter is absent.
C19_DirectMappingDefaults ==
    Resolved =>
        /\ nlp_result.intent = "window_resize" =>
              action = [type |-> "WindowResize", width |-> FieldOr("width", 800),
                        height |-> FieldOr("height", 600)]
        /\ nlp_result.intent = "window_move" =>
              /\ action.type = "WindowMove"
              /\ action.x = FieldOr("x", 0)
              /\ action.y = FieldOr("y", 0)
        /\ nlp_result.intent = "checkbox_set_state" =>
              /\ action.type = "CheckboxSetState"
              /\ action.state = (/\ "state" \in DOMAIN nlp_result.parameters
                                 /\ nlp_result.parameters["state"] = "true")

C19_Witness ==
    /\ Resolved
    /\ nlp_result = NLPResult("window_resize", [width |-> "1024", height |-> "12a"])
    /\ action = [type |-> "WindowResize", width |-> [hi |-> 0, lo |-> 1024],
                 height |-> [hi |-> 0, lo |-> 600]]

\* ---------------------------------------------------------------------------
\* Configuration reload (specification SpecReload)
\* ---------------------------------------------------------------------------
\* the file does not pass validation: the path does not resolve or lies
\* outside the base directory, the file is writable by the group or by
\* others, it cannot be read, or its text is no configuration
FailsValidation(f) ==
    \/ ~f.exists
    \/ ~f.in_base
    \/ f.mode \in {436, 422}
    \/ ~f.readable
    \/ f.content \notin {"A", "B"}

\* the reload thread takes a Write or Create event and reloads
ReloadStep ==
    /\ wthread = "recv"
    /\ events # <<>>
    /\ Head(events) \in {"Write", "Create"}
    /\ events' = Tail(events)

TableVersions == {SharedConfig(ParseConfig(c), FALSE) : c \in {"A", "B", "M1", "M2"}}

\* C21: a call of map_intent, all steps of a Multi alias included, gives what
\* one version of the alias table gives: the version that was in memory when
\* the call took the mutex, which is the one before or the one after any
\* reload; never a mixture of two versions.
C21_ResolveSeesOneVersion ==
    resolver.pc = "done" =>
        /\ resolver.snapshot.some
        /\ action = MapIntent(nlp_result, resolver.snapshot.val)
        /\ \E v \in TableVersions : action = MapIntent(nlp_result, v)

C21_Witness ==
    /\ resolver.pc = "done"
    /\ nlp_result.intent = "morning"
    /\ lastReload = "ok"
    /\ shared_config # resolver.snapshot.val
    /\ action = [type |-> "MultiStep",
                 steps |-> <<[type |-> "LaunchApplication", app |-> "a1.exe"],
                             [type |-> "FocusApplication", app |-> "b1.exe"]>>]
    /\ shared_config = SharedConfig(ParseConfig("M2"), FALSE)

\* ---------------------------------------------------------------------------
\* Settings (specifications SpecSettings, SpecSettingsFair)
\* ---------------------------------------------------------------------------
\* the request names a setting the serving handler knows and carries a value
\* of the setting's type
ValidRequest ==
    /\ upd.value.some
    /\ \/ upd.name = "language"
       \/ upd.name = "notifications_delay" /\ upd.value.val = "1024"
       \/ api = "webapi" /\ upd.name \in {"notification_enable", "antiflood"}
                         /\ upd.value.val = "true"

\* the configuration in memory holds the request's value
HoldsNewValue ==
    /\ shared_config.value.some
    /\ CASE upd.name = "language" -> shared_config.value.val.language = upd.value.val
         [] upd.name = "notifications_delay" ->
              shared_config.value.val.notifications_delay = [hi |-> 0, lo |-> 1024]
         [] upd.name = "notification_enable" -> shared_config.value.val.notification_enable
         [] upd.name = "antiflood" -> shared_config.value.val.antiflood
         [] OTHER -> FALSE

\* C22 (as stated): an update-settings request with a known setting name and
\* a valid value, made while a configuration is loaded, eventually gets a
\* success response, and then the configuration in memory holds the new value
\* and has been written to the config file.
C22_ValidUpdateSucceeds ==
    (upd.pc = "locked" /\ ValidRequest /\ shared_config.value.some)
        ~> (upd.resp = "ok" /\ HoldsNewValue /\ disk = shared_config.value)

\* C30: an update-settings request that is rejected -- the setting name is
\* not known, the value parameter is missing or the value does not parse as
\* the setting's type -- leaves every field of the configuration in memory
\* as it was and does not write the config file (nor does a request made
\* while no configuration is loaded).
C30_RejectedUpdateChangesNothing ==
    /\ (upd.pc \in {"returned", "save", "hung"} /\ ~ValidRequest) =>
          /\ upd.pc = "returned"
          /\ upd.resp \in {"bad_request", "not_found"}
    /\ upd.resp \in {"bad_request", "not_found"} =>
          /\ shared_config = upd.before.val
          /\ disk = upd.diskBefore

C30_Witness ==
    /\ upd.pc = "returned"
    /\ upd.resp = "bad_request"
    /\ upd.name = "notifications_delay"
    /\ upd.value = Some("12a")
    /\ upd.n = 2
    /\ shared_config.value.some
    /\ shared_config.value.val.notifications_delay = [hi |-> 0, lo |-> 0]

\* C29: direct mapping of "delete_file" yields DeleteFile with the "name"
\* parameter (the empty string when absent); copy_file, cut_file, move_file
\* and rename_file yield FileOperation carrying the intent.
C29_DeleteFileMapsToDeleteFile ==
    (Resolved /\ nlp_result.intent \in FileIntents) =>
        IF nlp_result.intent = "delete_file"
        THEN action = [type |-> "DeleteFile", name |-> (IF "name" \in DOMAIN nlp_result.parameters
                                               THEN nlp_result.parameters["name"] ELSE "")]
        ELSE action = [type |-> "FileOperation", operation |-> nlp_result.intent]

\* ------------------------------------- execution (specification SpecExec)
\* the steps of a MultiStep that are no MultiStep themselves, in list order,
\* those of a nested MultiStep at the place of that MultiStep
RECURSIVE StepsInListOrder(_)
StepsInListOrder(steps) ==
    IF steps = <<>> THEN <<>>
    ELSE (IF Head(steps).type = "MultiStep"
          THEN StepsInListOrder(Head(steps).steps)
          ELSE <<Head(steps)>>) \o StepsInListOrder(Tail(steps))

ExecutedInOrder ==
    LET flat == StepsInListOrder(action.steps)
        n == Len(exec.log)
    IN  /\ n <= Len(flat)
        /\ \A i \in 1..n : exec.log[i].step = flat[i]
        /\ \A i \in 1..(n - 1) : exec.log[i].result.ok
        /\ (n > 0 /\ ~exec.log[n].result.ok) => exec.pc = "done"
        /\ exec.pc = "done" =>
              IF n > 0 /\ ~exec.log[n].result.ok
              THEN exec.result = exec.log[n].result
              ELSE n = Len(flat) /\ exec.result = OkResult

\* C27: a MultiStep runs its steps in list order, nested MultiSteps in
\* place; it stops at the first step that fails and returns that step's
\* error, no later step is run and what was done before stays done (the
\* calls made are never taken back); with no failing step, all steps are run
\* and the result is success.
C27_MultiStepStopsAtFirstFailure ==
    [][/\ ExecutedInOrder'
       /\ SubSeq(exec'.log, 1, Len(exec.log)) = exec.log]_vars

\* C27 witness: a MultiStep of a step and a nested MultiStep: the first step
\* succeeded, the first step of the nested MultiStep failed with e2, the
\* call returned that error and the nested MultiStep's second step was not run.
C27_Witness ==
    /\ action = MultiStepOf(<<[type |-> "LaunchApplication", app |-> "a.exe"],
                              MultiStepOf(<<[type |-> "LaunchApplication", app |-> "b.exe"],
                                            [type |-> "SetFocus", label |-> "Cancel"]>>)>>)
    /\ exec.pc = "done"
    /\ exec.result = ErrResult("e2")
    /\ exec.log = <<[step |-> [type |-> "LaunchApplication", app |-> "a.exe"], result |-> OkResult],
                    [step |-> [type |-> "LaunchApplication", app |-> "b.exe"], result |-> ErrResult("e2")]>>

====
